---- MODULE Spec2Model ----
(* Verification model of the multi-agent code-review core:                  *)
(*   - backend/agents_v2/orchestrator.py  (AgentOrchestrator)                *)
(*   - backend/ai_agents.py                (AIAgentOrchestrator, legacy)     *)
(*   - backend/agents_v2/editor_agent.py   (CodeEditorAgent session store)   *)
(* Strings of source code are modelled as sequences of one-character        *)
(* strings; uuid4 values as fresh naturals.                                  *)
EXTENDS Integers, Sequences, FiniteSets, TLC

(* ------------------------------------------------------------------------ *)
(* Bounds                                                                    *)
(* ------------------------------------------------------------------------ *)
MaxIssuesPerAgent == 1
MaxScoreIssues == 5
MaxSessions == 2
MaxEdits == 2
(* sessions created plus edits applied, over the whole store *)
MaxChanges == 3

(* Elements of a JSON array in a reply; tokens of a freeform reply *)
MaxReplyItems == 2

MaxReplyTokens == 4

(* Websocket connections open on one session *)
MaxSockets == 2
MaxSummaryIssues == 4
MaxLines == 3

(* ------------------------------------------------------------------------ *)
(* Data model (agents_v2/models.py)                                          *)
(* ------------------------------------------------------------------------ *)
SeverityLevel == {"critical", "high", "medium", "low", "info"}

IssueCategory ==
  {"security", "performance", "quality", "maintainability",
   "best_practices", "style", "bug"}

(* Python None: the string "None" where a str is expected, and the empty   *)
(* option where an object or a list is expected (Some(x) is <<x>>).          *)
None == "None"

Nothing == <<>>

Some(x) == <<x>>

IsSome(o) == o # <<>>

Get(o) == o[1]

Max(a, b) == IF a >= b THEN a ELSE b

Min(a, b) == IF a <= b THEN a ELSE b

(* ------------------------------------------------------------------------ *)
(* Scoring                                                                   *)
(* ------------------------------------------------------------------------ *)
(* penalties.get(issue.severity.value, 5) of AgentOrchestrator *)
penalties(severity) ==
  CASE severity = "critical" -> 25
    [] severity = "high"     -> 15
    [] severity = "medium"   -> 10
    [] severity = "low"      -> 5
    [] severity = "info"     -> 2
    [] OTHER                 -> 5

(* penalties.get(issue.severity, 5) of the legacy AIAgentOrchestrator:      *)
(* the map has no "info" entry, so "info" takes the default.                 *)
legacy_penalties(severity) ==
  CASE severity = "critical" -> 25
    [] severity = "high"     -> 15
    [] severity = "medium"   -> 10
    [] severity = "low"      -> 5
    [] OTHER                 -> 5

RECURSIVE total_penalty(_)
total_penalty(issues) ==
  IF issues = <<>> THEN 0
  ELSE penalties(Head(issues).severity) + total_penalty(Tail(issues))

RECURSIVE legacy_total_penalty(_)
legacy_total_penalty(issues) ==
  IF issues = <<>> THEN 0
  ELSE legacy_penalties(Head(issues).severity) + legacy_total_penalty(Tail(issues))

calculate_score_unclamped(issues) ==
  IF issues = <<>> THEN 100 ELSE 100 - total_penalty(issues)

calculate_score_empty_zero(issues) ==
  IF issues = <<>> THEN 0 ELSE Max(0, 100 - total_penalty(issues))

(* AgentOrchestrator._calculate_score *)
calculate_score(issues) ==
  IF issues = <<>> THEN 100 ELSE Max(0, 100 - total_penalty(issues))

(* AIAgentOrchestrator._calculate_score *)
legacy_calculate_score(issues) ==
  IF issues = <<>> THEN 100 ELSE Max(0, 100 - legacy_total_penalty(issues))

(* ------------------------------------------------------------------------ *)
(* Summary                                                                   *)
(* ------------------------------------------------------------------------ *)
CountWhere(issues, field, value) ==
  Cardinality({i \in 1..Len(issues) : issues[i][field] = value})

SeverityOrder == <<"critical", "high", "medium", "low">>

(* severity_text: "<count> <severity>" for the severities of the loop at    *)
(* orchestrator.py:409 that have a positive count, in that order.            *)
RECURSIVE severity_text(_, _)
severity_text(issues, k) ==
  IF k > Len(SeverityOrder) THEN <<>>
  ELSE LET c == CountWhere(issues, "severity", SeverityOrder[k])
       IN (IF c > 0 THEN <<[severity |-> SeverityOrder[k], count |-> c]>> ELSE <<>>)
          \o severity_text(issues, k + 1)

(* Keys of the category_counts dict built by the loop at orchestrator.py:392, *)
(* each named by the index of the first issue of that category, so that the  *)
(* order of the indices is the dict's insertion order.                       *)
category_first(issues) ==
  {i \in 1..Len(issues) : \A j \in 1..(i - 1) : issues[j].category # issues[i].category}

(* category_counts.items() in insertion order *)
category_counts(issues) ==
  [p \in 1..Cardinality(category_first(issues)) |->
     LET i == CHOOSE i \in category_first(issues) :
                 Cardinality({j \in category_first(issues) : j < i}) = p - 1
     IN [category |-> issues[i].category,
         count |-> CountWhere(issues, "category", issues[i].category)]]

(* Position of key i in sorted(items, key=lambda x: x[1], reverse=True):    *)
(* the sort is stable, so ties keep insertion order.                         *)
category_rank(issues, i) ==
  Cardinality({j \in category_first(issues) :
     \/ CountWhere(issues, "category", issues[j].category)
          > CountWhere(issues, "category", issues[i].category)
     \/ /\ CountWhere(issues, "category", issues[j].category)
            = CountWhere(issues, "category", issues[i].category)
        /\ j < i})

(* sorted(category_counts.items(), ...)[:3] *)
top_categories(issues) ==
  [p \in 1..Min(3, Cardinality(category_first(issues))) |->
     LET i == CHOOSE i \in category_first(issues) : category_rank(issues, i) = p - 1
     IN [category |-> issues[i].category,
         count |-> CountWhere(issues, "category", issues[i].category)]]

generate_summary_always_counts(issues) ==
  [no_issues_found |-> FALSE,
   total |-> Len(issues),
   categories |-> Cardinality(category_first(issues)),
   severity |-> severity_text(issues, 1),
   main_areas |-> top_categories(issues)]

(* AgentOrchestrator._generate_summary; the text is kept as its parts.      *)
generate_summary(issues) ==
  IF issues = <<>>
  THEN [no_issues_found |-> TRUE, total |-> 0, categories |-> 0,
        severity |-> <<>>, main_areas |-> <<>>]
  ELSE [no_issues_found |-> FALSE,
        total |-> Len(issues),
        categories |-> Cardinality(category_first(issues)),
        severity |-> severity_text(issues, 1),
        main_areas |-> top_categories(issues)]

(* AIAgentOrchestrator._generate_summary: totals, the four severity counts, *)
(* per-category counts and the per-agent counts; no special empty case.      *)
legacy_generate_summary(issues, results) ==
  [total |-> Len(issues),
   severity |-> [s \in {"critical", "high", "medium", "low"} |->
                   CountWhere(issues, "severity", s)],
   categories |-> category_counts(issues),
   agent_results |-> results]

(* ------------------------------------------------------------------------ *)
(* State                                                                     *)
(* ------------------------------------------------------------------------ *)
VARIABLES
  orch,                    \* which orchestrator runs: "v2" or "legacy"
  include_recommendations, \* argument of analyze_code_streaming
  pc,                      \* position in the running analysis
  agent_i,                 \* loop index over the agents (1-based)
  rec_i,                   \* loop index over all_issues in the fix loop
  all_issues,
  all_recommendations,
  agent_results,           \* dict as a sequence of [name, count], insertion order
  events,                  \* events yielded so far
  result,                  \* value carried by analysis_complete / returned
  next_uuid,               \* number of uuid4 values drawn so far
  responses,               \* what each agent call produced, in run order
  score_issues,            \* argument of _calculate_score (scoring harness)
  score_v2,
  score_legacy,
  active_sessions,         \* CodeEditorAgent.active_sessions: id -> EditSession
  sessions_created,        \* number of session ids drawn so far
  edits_made,              \* number of edits applied so far (bounds the model)
  call,                    \* the last call made on the session store
  ret,                     \* what that call returned
  trail,                   \* per session id: what the latest calls on it were
  fcall,                   \* the last call of a stateless component
  fret,                    \* what that call returned
  socks,                   \* per websocket task: the await it stands at, its locals
  running                  \* the task that holds the event loop, 0 when none does

avars == <<orch, include_recommendations, pc, agent_i, rec_i, all_issues,
           all_recommendations, agent_results, events, result, next_uuid,
           responses>>

svars == <<score_issues, score_v2, score_legacy>>

evars == <<active_sessions, sessions_created, edits_made, call, ret, trail>>

pvars == <<fcall, fret>>

wvars == <<socks, running>>

vars == <<avars, svars, evars, pvars, wvars>>

BoundedSeq(S, n) == UNION {[1..k -> S] : k \in 0..n}

(* ------------------------------------------------------------------------ *)
(* Orchestrator (agents_v2/orchestrator.py)                                  *)
(* ------------------------------------------------------------------------ *)
(* self.agents: key -> agent.name *)
agents ==
  [code_analyzer     |-> "Code Quality Analyzer",
   security_agent    |-> "Security Vulnerability Scanner",
   performance_agent |-> "Performance Optimizer",
   fix_agent         |-> "Code Fix Generator",
   editor_agent      |-> "Interactive Code Editor"]

analysis_agents == <<"code_analyzer", "security_agent", "performance_agent">>

(* len([a for a in self.agents.values() if a.name != "Interactive Code Editor"]) *)
total_agents ==
  Cardinality({k \in DOMAIN agents : agents[k] # "Interactive Code Editor"})

(* Severity/category pairs an agent's _perform_analysis is fed with here.   *)
IssueKinds(key) ==
  CASE key = "code_analyzer"     -> {<<"medium", "maintainability">>}
    [] key = "security_agent"    -> {<<"critical", "security">>}
    [] key = "performance_agent" -> {<<"low", "performance">>}

(* Outcome of one `await agent.analyze(context)`: "ok" is an AgentResponse  *)
(* with success=True and data=list, "fail" the AgentResponse built by the   *)
(* except branch of BaseCodeAgent.analyze (success=False, data=None), and    *)
(* "raise" an exception leaving the call (handled at orchestrator.py:126).   *)
AgentOutcomes(key) ==
  {[kind |-> "fail", data |-> <<>>], [kind |-> "raise", data |-> <<>>]}
  \cup {[kind |-> "ok", data |-> d] : d \in BoundedSeq(IssueKinds(key), MaxIssuesPerAgent)}

MkIssuesSameId(name, data, base) ==
  [k \in 1..Len(data) |->
     [id |-> base + 1, severity |-> data[k][1], category |-> data[k][2],
      detected_by |-> name]]

(* CodeIssue(id=str(uuid.uuid4()), ..., detected_by=self.name) *)
MkIssues(name, data, base) ==
  [k \in 1..Len(data) |->
     [id |-> base + k, severity |-> data[k][1], category |-> data[k][2],
      detected_by |-> name]]

(* BaseCodeAgent.analyze *)
analyze(name, out, base) ==
  IF out.kind = "ok"
  THEN [agent_name |-> name, success |-> TRUE,
        data |-> Some(MkIssues(name, out.data, base)), error |-> None]
  ELSE [agent_name |-> name, success |-> FALSE, data |-> Nothing,
        error |-> "analysis failed"]

(* Python truth value of response.data (None and [] are false) *)
Truthy(data) == IsSome(data) /\ Get(data) # <<>>

Progress(n, d) == [num |-> n, den |-> d]

agent_iteration_no_except(i, out) ==
  LET name == agents[analysis_agents[i]]
      n == Len(analysis_agents)
      start == [type |-> "agent_start", agent |-> name, progress |-> Progress(i - 1, n)]
      response == analyze(name, out, next_uuid)
      issues == IF IsSome(response.data) THEN Get(response.data) ELSE <<>>
  IN IF out.kind = "raise"
     THEN [all_issues |-> all_issues, agent_results |-> agent_results,
           events |-> events \o <<start>>, raised |-> TRUE]
     ELSE IF response.success /\ Truthy(response.data)
     THEN [all_issues |-> all_issues \o issues,
           agent_results |-> agent_results
              \o <<[name |-> name, count |-> Len(issues)]>>,
           events |-> events \o <<start>>
              \o [k \in 1..Len(issues) |->
                    [type |-> "issue_found", agent |-> name, issue |-> issues[k]]]
              \o <<[type |-> "agent_complete", agent |-> name,
                    issues_found |-> Len(issues),
                    progress |-> Progress(i, n)]>>,
           raised |-> FALSE]
     ELSE [all_issues |-> all_issues, agent_results |-> agent_results,
           events |-> events \o <<start,
              [type |-> "agent_error", agent |-> name, error |-> response.error,
               progress |-> Progress(i, n)]>>,
           raised |-> FALSE]

agent_iteration_complete_first(i, out) ==
  LET name == agents[analysis_agents[i]]
      n == Len(analysis_agents)
      start == [type |-> "agent_start", agent |-> name, progress |-> Progress(i - 1, n)]
      response == analyze(name, out, next_uuid)
      issues == IF IsSome(response.data) THEN Get(response.data) ELSE <<>>
  IN IF out.kind = "raise"
     THEN [all_issues |-> all_issues, agent_results |-> agent_results,
           events |-> events \o <<start,
              [type |-> "agent_error", agent |-> name, error |-> "exception",
               progress |-> Progress(i, n)]>>,
           raised |-> FALSE]
     ELSE IF response.success /\ Truthy(response.data)
     THEN [all_issues |-> all_issues \o issues,
           agent_results |-> agent_results
              \o <<[name |-> name, count |-> Len(issues)]>>,
           events |-> events \o <<start>>
              \o <<[type |-> "agent_complete", agent |-> name,
                    issues_found |-> Len(issues),
                    progress |-> Progress(i, n)]>>
              \o [k \in 1..Len(issues) |->
                    [type |-> "issue_found", agent |-> name, issue |-> issues[k]]],
           raised |-> FALSE]
     ELSE [all_issues |-> all_issues, agent_results |-> agent_results,
           events |-> events \o <<start,
              [type |-> "agent_error", agent |-> name, error |-> response.error,
               progress |-> Progress(i, n)]>>,
           raised |-> FALSE]

agent_iteration_prepend(i, out) ==
  LET name == agents[analysis_agents[i]]
      n == Len(analysis_agents)
      start == [type |-> "agent_start", agent |-> name, progress |-> Progress(i - 1, n)]
      response == analyze(name, out, next_uuid)
      issues == IF IsSome(response.data) THEN Get(response.data) ELSE <<>>
  IN IF out.kind = "raise"
     THEN [all_issues |-> all_issues, agent_results |-> agent_results,
           events |-> events \o <<start,
              [type |-> "agent_error", agent |-> name, error |-> "exception",
               progress |-> Progress(i, n)]>>,
           raised |-> FALSE]
     ELSE IF response.success /\ Truthy(response.data)
     THEN [all_issues |-> issues \o all_issues,
           agent_results |-> agent_results
              \o <<[name |-> name, count |-> Len(issues)]>>,
           events |-> events \o <<start>>
              \o [k \in 1..Len(issues) |->
                    [type |-> "issue_found", agent |-> name, issue |-> issues[k]]]
              \o <<[type |-> "agent_complete", agent |-> name,
                    issues_found |-> Len(issues),
                    progress |-> Progress(i, n)]>>,
           raised |-> FALSE]
     ELSE [all_issues |-> all_issues, agent_results |-> agent_results,
           events |-> events \o <<start,
              [type |-> "agent_error", agent |-> name, error |-> response.error,
               progress |-> Progress(i, n)]>>,
           raised |-> FALSE]

(* Body of `for i, agent_name in enumerate(analysis_agents)`: the values of *)
(* all_issues, agent_results and the events after iteration i.               *)
agent_iteration(i, out) ==
  LET name == agents[analysis_agents[i]]
      n == Len(analysis_agents)
      start == [type |-> "agent_start", agent |-> name, progress |-> Progress(i - 1, n)]
      response == analyze(name, out, next_uuid)
      issues == IF IsSome(response.data) THEN Get(response.data) ELSE <<>>
  IN IF out.kind = "raise"
     THEN [all_issues |-> all_issues, agent_results |-> agent_results,
           events |-> events \o <<start,
              [type |-> "agent_error", agent |-> name, error |-> "exception",
               progress |-> Progress(i, n)]>>,
           raised |-> FALSE]
     ELSE IF response.success /\ Truthy(response.data)
     THEN [all_issues |-> all_issues \o issues,
           agent_results |-> agent_results
              \o <<[name |-> name, count |-> Len(issues)]>>,
           events |-> events \o <<start>>
              \o [k \in 1..Len(issues) |->
                    [type |-> "issue_found", agent |-> name, issue |-> issues[k]]]
              \o <<[type |-> "agent_complete", agent |-> name,
                    issues_found |-> Len(issues),
                    progress |-> Progress(i, n)]>>,
           raised |-> FALSE]
     ELSE [all_issues |-> all_issues, agent_results |-> agent_results,
           events |-> events \o <<start,
              [type |-> "agent_error", agent |-> name, error |-> response.error,
               progress |-> Progress(i, n)]>>,
           raised |-> FALSE]

(* First step of analyze_code_streaming: the initial status event and the   *)
(* empty accumulators.                                                       *)
StartAnalysis ==
  /\ orch = "v2" /\ pc = "start"
  /\ events' = <<[type |-> "status", status |-> "started",
                  total_agents |-> total_agents]>>
  /\ all_issues' = <<>> /\ all_recommendations' = <<>> /\ agent_results' = <<>>
  /\ agent_i' = 1
  /\ pc' = "agents"
  /\ UNCHANGED <<orch, include_recommendations, rec_i, result, next_uuid, responses>>

AgentIteration ==
  /\ orch = "v2" /\ pc = "agents" /\ agent_i <= Len(analysis_agents)
  /\ \E out \in AgentOutcomes(analysis_agents[agent_i]) :
       LET st == agent_iteration(agent_i, out)
           resp == analyze(agents[analysis_agents[agent_i]], out, next_uuid)
       IN /\ all_issues' = st.all_issues
          /\ agent_results' = st.agent_results
          /\ events' = st.events
          /\ responses' = Append(responses,
                [kind |-> out.kind,
                 agent |-> agents[analysis_agents[agent_i]],
                 issues |-> IF out.kind = "ok" THEN Get(resp.data) ELSE <<>>])
          /\ next_uuid' = next_uuid + Len(out.data)
          /\ agent_i' = agent_i + 1
          /\ pc' = IF st.raised THEN "raised"
                   ELSE IF agent_i = Len(analysis_agents) THEN "after_agents"
                   ELSE "agents"
  /\ UNCHANGED <<orch, include_recommendations, rec_i, all_recommendations, result>>

(* ------------------------------------------------------------------------ *)
(* Fix generation (agents_v2/fix_agent.py)                                   *)
(* ------------------------------------------------------------------------ *)
(* Outcome of one `await fix_agent.generate_fix(issue, context)`:           *)
(*   "specific"  a fix tool produced a result without "error"                *)
(*   "fallback"  the generic manual-fix recommendation                       *)
(*   "exception" raised inside generate_fix, caught there, returns None      *)
(*   "raise"     an exception leaving the call (handled at orchestrator:160) *)
FixOutcomes(issue) ==
  {"fallback", "exception", "raise"}
  \cup (IF issue.category \in {"security", "style", "performance", "quality"}
        THEN {"specific"} ELSE {})

generate_fix_wrong_issue(issue, out) ==
  CASE out = "specific" ->
         Some([issue_id |-> issue.id + 1, auto_fixable |-> TRUE,
               impact |-> IF issue.severity = "low" THEN "safe" ELSE "moderate"])
    [] out = "fallback" ->
         Some([issue_id |-> issue.id + 1, auto_fixable |-> FALSE,
               impact |-> "moderate"])
    [] OTHER -> Nothing

(* CodeFixAgent.generate_fix *)
generate_fix(issue, out) ==
  CASE out = "specific" ->
         Some([issue_id |-> issue.id, auto_fixable |-> TRUE,
               impact |-> IF issue.severity = "low" THEN "safe" ELSE "moderate"])
    [] out = "fallback" ->
         Some([issue_id |-> issue.id, auto_fixable |-> FALSE,
               impact |-> "moderate"])
    [] OTHER -> Nothing

fix_iteration_no_except(i, out) ==
  LET recommendation == generate_fix(all_issues[i], out)
  IN IF out = "raise"
     THEN [all_recommendations |-> all_recommendations, events |-> events,
           raised |-> TRUE]
     ELSE IF IsSome(recommendation)
     THEN [all_recommendations |-> Append(all_recommendations, Get(recommendation)),
           events |-> Append(events,
              [type |-> "recommendation_generated",
               recommendation |-> Get(recommendation),
               progress |-> Progress(i, Len(all_issues))]),
           raised |-> FALSE]
     ELSE [all_recommendations |-> all_recommendations, events |-> events,
           raised |-> FALSE]

(* Body of `for i, issue in enumerate(all_issues)` *)
fix_iteration(i, out) ==
  LET recommendation == generate_fix(all_issues[i], out)
  IN IF out = "raise"
     THEN [all_recommendations |-> all_recommendations, events |-> events,
           raised |-> FALSE]
     ELSE IF IsSome(recommendation)
     THEN [all_recommendations |-> Append(all_recommendations, Get(recommendation)),
           events |-> Append(events,
              [type |-> "recommendation_generated",
               recommendation |-> Get(recommendation),
               progress |-> Progress(i, Len(all_issues))]),
           raised |-> FALSE]
     ELSE [all_recommendations |-> all_recommendations, events |-> events,
           raised |-> FALSE]

wants_recommendations_always(flag, issues) == issues # <<>>

(* `if include_recommendations and all_issues:` *)
wants_recommendations(flag, issues) == flag /\ issues # <<>>

BeginRecommendations ==
  /\ orch = "v2" /\ pc = "after_agents"
  /\ wants_recommendations(include_recommendations, all_issues)
  /\ events' = Append(events,
        [type |-> "status", status |-> "generating_recommendations",
         issues_found |-> Len(all_issues)])
  /\ rec_i' = 1
  /\ pc' = "recs"
  /\ UNCHANGED <<orch, include_recommendations, agent_i, all_issues,
                 all_recommendations, agent_results, result, next_uuid, responses>>

SkipRecommendations ==
  /\ orch = "v2" /\ pc = "after_agents"
  /\ ~wants_recommendations(include_recommendations, all_issues)
  /\ pc' = "finish"
  /\ UNCHANGED <<orch, include_recommendations, agent_i, rec_i, all_issues,
                 all_recommendations, agent_results, events, result, next_uuid,
                 responses>>

FixIteration ==
  /\ orch = "v2" /\ pc = "recs" /\ rec_i <= Len(all_issues)
  /\ \E out \in FixOutcomes(all_issues[rec_i]) :
       LET st == fix_iteration(rec_i, out)
       IN /\ all_recommendations' = st.all_recommendations
          /\ events' = st.events
          /\ pc' = IF st.raised THEN "raised"
                   ELSE IF rec_i = Len(all_issues) THEN "finish" ELSE "recs"
  /\ rec_i' = rec_i + 1
  /\ UNCHANGED <<orch, include_recommendations, agent_i, all_issues,
                 agent_results, result, next_uuid, responses>>

(* list(agent_results.keys()) *)
keys(results) == [k \in 1..Len(results) |-> results[k].name]

(* Field constraints of AnalysisResult: overall_score is ge=0, le=100. *)
AnalysisResultValid(r) == r.overall_score \in 0..100

(* Score, summary, AnalysisResult and the analysis_complete event. *)
FinishAnalysis ==
  /\ orch = "v2" /\ pc = "finish"
  /\ LET r == [issues |-> all_issues,
               recommendations |-> all_recommendations,
               overall_score |-> calculate_score(all_issues),
               summary |-> generate_summary(all_issues),
               analyzed_by |-> keys(agent_results),
               metadata |-> [streaming |-> TRUE,
                             agent_count |-> Len(analysis_agents),
                             recommendation_count |-> Len(all_recommendations)]]
     IN IF AnalysisResultValid(r)
        THEN /\ result' = Some(r)
             /\ events' = Append(events, [type |-> "analysis_complete", result |-> r])
             /\ pc' = "done"
        ELSE /\ pc' = "raised"      \* pydantic ValidationError
             /\ UNCHANGED <<result, events>>
  /\ UNCHANGED <<orch, include_recommendations, agent_i, rec_i, all_issues,
                 all_recommendations, agent_results, next_uuid, responses>>

(* ------------------------------------------------------------------------ *)
(* AgentOrchestrator.analyze_code: the non-streaming entry point            *)
(* ------------------------------------------------------------------------ *)
(* The CodeIssue that the AnalysisResult constructor builds from the dict   *)
(* of an issue: Some(issue), Nothing for a pydantic ValidationError.        *)
CodeIssueOf(d) ==
  IF d.severity \in SeverityLevel /\ d.category \in IssueCategory
  THEN Some([id |-> d.id, severity |-> d.severity, category |-> d.category,
             detected_by |-> d.detected_by])
  ELSE Nothing

(* The AnalysisResult constructor applied to the keys of update["result"] *)
AnalysisResultOf(d) ==
  IF /\ AnalysisResultValid(d)
     /\ \A i \in 1..Len(d.issues) : IsSome(CodeIssueOf(d.issues[i]))
  THEN Some([issues |-> [i \in 1..Len(d.issues) |-> Get(CodeIssueOf(d.issues[i]))],
             recommendations |-> d.recommendations,
             overall_score |-> d.overall_score,
             summary |-> d.summary,
             analyzed_by |-> d.analyzed_by,
             metadata |-> d.metadata])
  ELSE Nothing

(* AnalysisResult(id="error", context=context, summary="Analysis failed",   *)
(*                analyzed_by=[], analysis_time_seconds=0)                   *)
FailedAnalysisResult ==
  [issues |-> <<>>, recommendations |-> <<>>, overall_score |-> 0,
   summary |-> "Analysis failed", analyzed_by |-> <<>>, metadata |-> <<>>]

analyze_code_no_break(updates) == Some(FailedAnalysisResult)

(* analyze_code over the updates its `async for` has drawn from             *)
(* analyze_code_streaming: the result rebuilt from the first                *)
(* analysis_complete update, the fallback when the generator ends without   *)
(* one; Nothing when rebuilding raises.                                      *)
analyze_code(updates) ==
  LET complete == {i \in 1..Len(updates) : updates[i].type = "analysis_complete"}
  IN IF complete = {} THEN Some(FailedAnalysisResult)
     ELSE AnalysisResultOf(
            updates[CHOOSE i \in complete : \A j \in complete : i <= j].result)

(* ------------------------------------------------------------------------ *)
(* Legacy orchestrator (ai_agents.py)                                        *)
(* ------------------------------------------------------------------------ *)
legacy_agents ==
  <<"Security Analysis Agent", "Performance Optimization Agent",
    "Code Quality Agent", "Best Practices Agent", "Maintainability Agent">>

(* Severities a legacy reply is fed with here: CodeIssue.severity is a      *)
(* free string copied from the reply (ai_agents.py:106).                     *)
LegacyIssueKinds(i) ==
  CASE i = 1 -> {<<"critical", "security">>}
    [] i = 2 -> {<<"info", "performance">>}
    [] i = 3 -> {<<"medium", "quality">>}
    [] i = 4 -> {<<"low", "practices">>}
    [] i = 5 -> {<<"high", "maintainability">>}

LegacyOutcomes(i) ==
  {[kind |-> "raise", data |-> <<>>]}
  \cup {[kind |-> "ok", data |-> d] : d \in BoundedSeq(LegacyIssueKinds(i), MaxIssuesPerAgent)}

LegacyIssues(data) ==
  [k \in 1..Len(data) |-> [severity |-> data[k][1], category |-> data[k][2]]]

legacy_agent_iteration_no_except(i, out) ==
  IF out.kind = "raise"
  THEN [all_issues |-> all_issues, agent_results |-> agent_results, raised |-> TRUE]
  ELSE [all_issues |-> all_issues \o LegacyIssues(out.data),
        agent_results |-> Append(agent_results,
           [name |-> legacy_agents[i], count |-> Len(out.data)]),
        raised |-> FALSE]

(* Body of `for agent in self.agents` of AIAgentOrchestrator.analyze_code *)
legacy_agent_iteration(i, out) ==
  IF out.kind = "raise"
  THEN [all_issues |-> all_issues,
        agent_results |-> Append(agent_results,
           [name |-> legacy_agents[i], count |-> 0]),
        raised |-> FALSE]
  ELSE [all_issues |-> all_issues \o LegacyIssues(out.data),
        agent_results |-> Append(agent_results,
           [name |-> legacy_agents[i], count |-> Len(out.data)]),
        raised |-> FALSE]

LegacyAgentIteration ==
  /\ orch = "legacy" /\ pc = "start" /\ agent_i <= Len(legacy_agents)
  /\ \E out \in LegacyOutcomes(agent_i) :
       LET st == legacy_agent_iteration(agent_i, out)
       IN /\ all_issues' = st.all_issues
          /\ agent_results' = st.agent_results
          /\ responses' = Append(responses,
                [kind |-> out.kind, agent |-> legacy_agents[agent_i],
                 issues |-> LegacyIssues(out.data)])
          /\ pc' = IF st.raised THEN "raised"
                   ELSE IF agent_i = Len(legacy_agents) THEN "finish" ELSE "start"
  /\ agent_i' = agent_i + 1
  /\ UNCHANGED <<orch, include_recommendations, rec_i, all_recommendations,
                 events, result, next_uuid>>

(* return all_issues, overall_score, summary *)
LegacyFinish ==
  /\ orch = "legacy" /\ pc = "finish"
  /\ result' = Some([issues |-> all_issues,
                     overall_score |-> legacy_calculate_score(all_issues),
                     summary |-> legacy_generate_summary(all_issues, agent_results)])
  /\ pc' = "done"
  /\ UNCHANGED <<orch, include_recommendations, agent_i, rec_i, all_issues,
                 all_recommendations, agent_results, events, next_uuid, responses>>

(* ------------------------------------------------------------------------ *)
(* Editing session store (agents_v2/editor_agent.py)                         *)
(* ------------------------------------------------------------------------ *)
NL == "\n"

(* x or "" *)
OrEmpty(o) == IF IsSome(o) THEN Get(o) ELSE <<>>

(* str.replace(old, new): every non-overlapping occurrence, left to right;  *)
(* with old = "" the new text goes before every character and at the end.   *)
RECURSIVE str_replace(_, _, _)
str_replace(s, old, new) ==
  IF old = <<>>
  THEN new \o (IF s = <<>> THEN <<>> ELSE <<Head(s)>> \o str_replace(Tail(s), old, new))
  ELSE IF Len(s) < Len(old) THEN s
  ELSE IF SubSeq(s, 1, Len(old)) = old
       THEN new \o str_replace(SubSeq(s, Len(old) + 1, Len(s)), old, new)
       ELSE <<Head(s)>> \o str_replace(Tail(s), old, new)

(* str.split('\n') *)
RECURSIVE split(_)
split(s) ==
  IF \A i \in 1..Len(s) : s[i] # NL THEN <<s>>
  ELSE LET i == CHOOSE i \in 1..Len(s) : s[i] = NL /\ \A j \in 1..(i - 1) : s[j] # NL
       IN <<SubSeq(s, 1, i - 1)>> \o split(SubSeq(s, i + 1, Len(s)))

(* '\n'.join(lines) *)
RECURSIVE join(_)
join(lines) ==
  IF lines = <<>> THEN <<>>
  ELSE IF Len(lines) = 1 THEN lines[1]
  ELSE lines[1] \o <<NL>> \o join(Tail(lines))

(* lines.insert(index, x) for index >= 0: beyond the end it appends *)
list_insert(lines, index, x) ==
  LET k == Min(index, Len(lines))
  IN SubSeq(lines, 1, k) \o <<x>> \o SubSeq(lines, k + 1, Len(lines))

(* del lines[start:stop] for 0 <= start: 0-based, stop exclusive *)
list_del_slice(lines, start, stop) ==
  LET keep == {i \in 1..Len(lines) : ~(start < i /\ i <= stop)}
  IN [p \in 1..Cardinality(keep) |->
        lines[CHOOSE i \in keep : Cardinality({j \in keep : j < i}) = p - 1]]

Err(msg) == [error |-> msg]

(* f"Unsupported operation type: {operation.type}" *)
Unsupported(type) ==
  CASE type = "move" -> "Unsupported operation type: move"
    [] OTHER -> "Unsupported operation type: other"

(* EditSession(session_id=..., code_context=context, current_code=context.code) *)
NewSession(code) ==
  [code |-> code, current_code |-> code, applied_edits |-> <<>>,
   undo_stack |-> <<>>, redo_stack |-> <<>>, validation_status |-> Nothing]

(* The EditOperation pushed on a stack: a whole-file replace. *)
StackOperation(code_now, original_content, new_content, description) ==
  [type |-> "replace", line_start |-> 1, line_end |-> Some(Len(split(code_now))),
   original_content |-> Some(original_content), new_content |-> Some(new_content),
   description |-> description, recommendation_id |-> Nothing, applied |-> FALSE]

(* new_code of apply_edit_operation for the three supported types *)
edited_code(code, operation) ==
  CASE operation.type = "replace" ->
         str_replace(code, OrEmpty(operation.original_content),
                     OrEmpty(operation.new_content))
    [] operation.type = "insert" ->
         join(list_insert(split(code), operation.line_start - 1,
                          OrEmpty(operation.new_content)))
    [] operation.type = "delete" ->
         LET start == operation.line_start - 1
             end == IF IsSome(operation.line_end) /\ Get(operation.line_end) # 0
                    THEN Get(operation.line_end) ELSE start
         IN join(list_del_slice(split(code), start, end + 1))

apply_edit_operation_keep_redo(sessions, session_id, operation) ==
  IF session_id \notin DOMAIN sessions
  THEN [sessions |-> sessions, ret |-> Err("Session not found")]
  ELSE IF operation.type \notin {"replace", "insert", "delete"}
  THEN [sessions |-> sessions, ret |-> Err(Unsupported(operation.type))]
  ELSE LET session == sessions[session_id]
           new_code == edited_code(session.current_code, operation)
       IN [sessions |-> [sessions EXCEPT ![session_id] =
              [session EXCEPT
                 !.undo_stack = Append(session.undo_stack,
                    StackOperation(session.current_code, new_code,
                                   session.current_code, "Undo operation")),
                 !.current_code = new_code,
                 !.applied_edits = Append(session.applied_edits,
                                          [operation EXCEPT !.applied = TRUE])]],
           ret |-> [success |-> TRUE, new_code |-> new_code]]

apply_edit_operation_shared_code(sessions, session_id, operation) ==
  IF session_id \notin DOMAIN sessions
  THEN [sessions |-> sessions, ret |-> Err("Session not found")]
  ELSE IF operation.type \notin {"replace", "insert", "delete"}
  THEN [sessions |-> sessions, ret |-> Err(Unsupported(operation.type))]
  ELSE LET session == sessions[session_id]
           new_code == edited_code(session.current_code, operation)
       IN [sessions |-> [k \in DOMAIN sessions |->
              IF k = session_id
              THEN [session EXCEPT
                      !.undo_stack = Append(session.undo_stack,
                         StackOperation(session.current_code, new_code,
                                        session.current_code, "Undo operation")),
                      !.current_code = new_code,
                      !.applied_edits = Append(session.applied_edits,
                                               [operation EXCEPT !.applied = TRUE]),
                      !.redo_stack = <<>>]
              ELSE [sessions[k] EXCEPT !.current_code = new_code]],
           ret |-> [success |-> TRUE, new_code |-> new_code]]

(* apply_edit_operation *)
apply_edit_operation(sessions, session_id, operation) ==
  IF session_id \notin DOMAIN sessions
  THEN [sessions |-> sessions, ret |-> Err("Session not found")]
  ELSE IF operation.type \notin {"replace", "insert", "delete"}
  THEN [sessions |-> sessions, ret |-> Err(Unsupported(operation.type))]
  ELSE LET session == sessions[session_id]
           new_code == edited_code(session.current_code, operation)
       IN [sessions |-> [sessions EXCEPT ![session_id] =
              [session EXCEPT
                 !.undo_stack = Append(session.undo_stack,
                    StackOperation(session.current_code, new_code,
                                   session.current_code, "Undo operation")),
                 !.current_code = new_code,
                 !.applied_edits = Append(session.applied_edits,
                                          [operation EXCEPT !.applied = TRUE]),
                 !.redo_stack = <<>>]],
           ret |-> [success |-> TRUE, new_code |-> new_code]]

undo_last_edit_no_empty_check(sessions, session_id) ==
  IF session_id \notin DOMAIN sessions
  THEN [sessions |-> sessions, ret |-> Err("Session not found")]
  ELSE IF sessions[session_id].undo_stack = <<>>
  THEN [sessions |-> sessions, ret |-> [raised |-> "IndexError"]]
  ELSE LET session == sessions[session_id]
           undo_op == session.undo_stack[Len(session.undo_stack)]
       IN [sessions |-> [sessions EXCEPT ![session_id] =
              [session EXCEPT
                 !.undo_stack = SubSeq(session.undo_stack, 1, Len(session.undo_stack) - 1),
                 !.redo_stack = Append(session.redo_stack,
                    StackOperation(session.current_code, session.current_code,
                                   OrEmpty(undo_op.original_content), "Redo operation")),
                 !.current_code = OrEmpty(undo_op.original_content)]],
           ret |-> [success |-> TRUE, new_code |-> OrEmpty(undo_op.original_content)]]

undo_last_edit_no_session_check(sessions, session_id) ==
  IF session_id \notin DOMAIN sessions
  THEN [sessions |-> sessions, ret |-> [raised |-> "KeyError"]]
  ELSE IF sessions[session_id].undo_stack = <<>>
  THEN [sessions |-> sessions, ret |-> Err("Nothing to undo")]
  ELSE LET session == sessions[session_id]
           undo_op == session.undo_stack[Len(session.undo_stack)]
       IN [sessions |-> [sessions EXCEPT ![session_id] =
              [session EXCEPT
                 !.undo_stack = SubSeq(session.undo_stack, 1, Len(session.undo_stack) - 1),
                 !.redo_stack = Append(session.redo_stack,
                    StackOperation(session.current_code, session.current_code,
                                   OrEmpty(undo_op.original_content), "Redo operation")),
                 !.current_code = OrEmpty(undo_op.original_content)]],
           ret |-> [success |-> TRUE, new_code |-> OrEmpty(undo_op.original_content)]]

undo_last_edit_redo_to_previous(sessions, session_id) ==
  IF session_id \notin DOMAIN sessions
  THEN [sessions |-> sessions, ret |-> Err("Session not found")]
  ELSE IF sessions[session_id].undo_stack = <<>>
  THEN [sessions |-> sessions, ret |-> Err("Nothing to undo")]
  ELSE LET session == sessions[session_id]
           undo_op == session.undo_stack[Len(session.undo_stack)]
       IN [sessions |-> [sessions EXCEPT ![session_id] =
              [session EXCEPT
                 !.undo_stack = SubSeq(session.undo_stack, 1, Len(session.undo_stack) - 1),
                 !.redo_stack = Append(session.redo_stack,
                    StackOperation(session.current_code, session.current_code,
                                   OrEmpty(undo_op.new_content), "Redo operation")),
                 !.current_code = OrEmpty(undo_op.original_content)]],
           ret |-> [success |-> TRUE, new_code |-> OrEmpty(undo_op.original_content)]]

(* undo_last_edit *)
undo_last_edit(sessions, session_id) ==
  IF session_id \notin DOMAIN sessions
  THEN [sessions |-> sessions, ret |-> Err("Session not found")]
  ELSE IF sessions[session_id].undo_stack = <<>>
  THEN [sessions |-> sessions, ret |-> Err("Nothing to undo")]
  ELSE LET session == sessions[session_id]
           undo_op == session.undo_stack[Len(session.undo_stack)]
       IN [sessions |-> [sessions EXCEPT ![session_id] =
              [session EXCEPT
                 !.undo_stack = SubSeq(session.undo_stack, 1, Len(session.undo_stack) - 1),
                 !.redo_stack = Append(session.redo_stack,
                    StackOperation(session.current_code, session.current_code,
                                   OrEmpty(undo_op.original_content), "Redo operation")),
                 !.current_code = OrEmpty(undo_op.original_content)]],
           ret |-> [success |-> TRUE, new_code |-> OrEmpty(undo_op.original_content)]]

(* redo_last_edit *)
redo_last_edit(sessions, session_id) ==
  IF session_id \notin DOMAIN sessions
  THEN [sessions |-> sessions, ret |-> Err("Session not found")]
  ELSE IF sessions[session_id].redo_stack = <<>>
  THEN [sessions |-> sessions, ret |-> Err("Nothing to redo")]
  ELSE LET session == sessions[session_id]
           redo_op == session.redo_stack[Len(session.redo_stack)]
       IN [sessions |-> [sessions EXCEPT ![session_id] =
              [session EXCEPT
                 !.redo_stack = SubSeq(session.redo_stack, 1, Len(session.redo_stack) - 1),
                 !.undo_stack = Append(session.undo_stack,
                    StackOperation(session.current_code, session.current_code,
                                   OrEmpty(redo_op.new_content), "Undo operation")),
                 !.current_code = OrEmpty(redo_op.new_content)]],
           ret |-> [success |-> TRUE, new_code |-> OrEmpty(redo_op.new_content)]]

(* code.count(ch) *)
count(code, ch) == Cardinality({i \in 1..Len(code) : code[i] = ch})

(* validate_session_code for python code made of names, newlines and        *)
(* parentheses: compile() fails exactly when a parenthesis is left open or  *)
(* closed without being opened, which here is when the counts differ.       *)
validate_session_code(sessions, session_id) ==
  IF session_id \notin DOMAIN sessions
  THEN [valid |-> FALSE, errors |-> <<"Session not found">>, lines |-> 0, characters |-> 0]
  ELSE LET code == sessions[session_id].current_code
           errors == IF count(code, "(") # count(code, ")")
                     THEN <<"Syntax error", "Mismatched parentheses">> ELSE <<>>
       IN [valid |-> Len(errors) = 0, errors |-> errors,
           lines |-> Len(split(code)), characters |-> Len(code)]

(* CodeEditorAgent.apply_recommendation *)
apply_recommendation(sessions, session_id, recommendation) ==
  IF session_id \notin DOMAIN sessions
  THEN [sessions |-> sessions, ret |-> Err("Session not found")]
  ELSE LET operation == [type |-> "replace", line_start |-> 1, line_end |-> Some(1),
                         original_content |-> Some(recommendation.original_code),
                         new_content |-> Some(recommendation.suggested_code),
                         description |-> "recommendation",
                         recommendation_id |-> Some(recommendation.issue_id),
                         applied |-> FALSE]
           r == apply_edit_operation(sessions, session_id, operation)
           validation == validate_session_code(r.sessions, session_id)
       IN IF "success" \in DOMAIN r.ret
          THEN [sessions |-> [r.sessions EXCEPT
                                ![session_id].validation_status = Some(validation)],
                ret |-> [success |-> TRUE, new_code |-> r.ret.new_code,
                         validation |-> validation]]
          ELSE r

(* CodeEditorAgent.get_session_diff *)
get_session_diff(sessions, session_id) ==
  IF session_id \notin DOMAIN sessions
  THEN Nothing
  ELSE LET original_lines == split(sessions[session_id].code)
           current_lines == split(sessions[session_id].current_code)
           common == Min(Len(original_lines), Len(current_lines))
           modified == {i \in 1..common : original_lines[i] # current_lines[i]}
           added == (Len(original_lines) + 1)..Len(current_lines)
           removed == (Len(current_lines) + 1)..Len(original_lines)
       IN Some([original_lines |-> Len(original_lines),
                current_lines |-> Len(current_lines),
                added_lines |-> added, removed_lines |-> removed,
                modified_lines |-> modified,
                total_changes |-> Cardinality(added) + Cardinality(removed)
                                  + Cardinality(modified)])

Without(sessions, session_id) ==
  [k \in DOMAIN sessions \ {session_id} |-> sessions[k]]

finalize_session_keeps_session(sessions, session_id) ==
  IF session_id \notin DOMAIN sessions
  THEN [sessions |-> sessions, ret |-> Nothing]
  ELSE [sessions |-> sessions,
        ret |-> Some(sessions[session_id].current_code)]

finalize_session_empty_code(sessions, session_id) ==
  IF session_id \notin DOMAIN sessions
  THEN [sessions |-> sessions, ret |-> Some(<<>>)]
  ELSE [sessions |-> Without(sessions, session_id),
        ret |-> Some(sessions[session_id].current_code)]

(* CodeEditorAgent.finalize_session *)
finalize_session(sessions, session_id) ==
  IF session_id \notin DOMAIN sessions
  THEN [sessions |-> sessions, ret |-> Nothing]
  ELSE [sessions |-> Without(sessions, session_id),
        ret |-> Some(sessions[session_id].current_code)]

(* The only element of a one-element set *)
The(S) == CHOOSE x \in S : TRUE

(* The loop of AgentOrchestrator.apply_recommendations over the list; each  *)
(* intermediate value is bound with \in so that it is computed once.        *)
RECURSIVE apply_each(_, _, _)
apply_each(sessions, session_id, recommendations) ==
  IF recommendations = <<>>
  THEN [sessions |-> sessions, results |-> <<>>, applied_count |-> 0]
  ELSE The(UNION {
         {[sessions |-> rest.sessions,
           results |-> <<[recommendation_id |-> Head(recommendations).issue_id,
                          success |-> "success" \in DOMAIN r.ret,
                          error |-> IF "error" \in DOMAIN r.ret
                                    THEN r.ret.error ELSE None]>> \o rest.results,
           applied_count |-> (IF "success" \in DOMAIN r.ret THEN 1 ELSE 0)
                              + rest.applied_count] :
            rest \in {apply_each(r.sessions, session_id, Tail(recommendations))}} :
         r \in {apply_recommendation(sessions, session_id, Head(recommendations))}})

(* AgentOrchestrator.apply_recommendations; session_id is optional, new_id  *)
(* is the id create_session draws when none is given.                       *)
apply_recommendations(sessions, code, recommendations, session_id, new_id) ==
  LET sid == IF IsSome(session_id) THEN Get(session_id) ELSE new_id
      started == IF IsSome(session_id) THEN sessions
                 ELSE [k \in DOMAIN sessions \cup {new_id} |->
                         IF k = new_id THEN NewSession(code) ELSE sessions[k]]
  IN The({[sessions |-> r.sessions,
           ret |-> [session_id |-> sid,
                    total_recommendations |-> Len(recommendations),
                    applied_count |-> r.applied_count,
                    failed_count |-> Len(recommendations) - r.applied_count,
                    results |-> r.results,
                    final_code |-> IF sid \in DOMAIN r.sessions
                                   THEN Some(r.sessions[sid].current_code)
                                   ELSE Nothing,
                    diff |-> IF sid \in DOMAIN r.sessions
                             THEN get_session_diff(r.sessions, sid)
                             ELSE Nothing]] :
          r \in {apply_each(started, sid, recommendations)}})

(* Inputs of the session store *)
SessionIds == 1..(MaxSessions + 1)

InitialCodes == {<<"a", NL, "b">>}

Location(line_start, line_end) == [line_start |-> line_start, line_end |-> line_end]

Operation(type, loc, original_content, new_content) ==
  [type |-> type, line_start |-> loc.line_start, line_end |-> loc.line_end,
   original_content |-> original_content, new_content |-> new_content,
   description |-> "edit", recommendation_id |-> Nothing, applied |-> FALSE]

EditOperations ==
  {Operation("replace", Location(1, Some(1)), Some(<<"a">>), Some(<<"b">>)),
   Operation("insert", Location(2, Nothing), Nothing, Some(<<"c">>)),
   Operation("delete", Location(1, Some(1)), Nothing, Nothing),
   Operation("move", Location(1, Some(2)), Nothing, Nothing)}

Recommendations ==
  {[issue_id |-> 1, original_code |-> <<"a">>, suggested_code |-> <<"(">>]}

Succeeded(r) == "success" \in DOMAIN r

(* Optional return value as a record *)
Returned(o) == IF IsSome(o) THEN [value |-> Get(o)] ELSE [none |-> TRUE]

Called(op, session_id) ==
  [op |-> op, known |-> session_id \in DOMAIN active_sessions]


(* The apply; undo; redo sequence of the session that was edited last *)
Untracked == [session_id |-> 0, phase |-> "other", code |-> <<>>, redo_before |-> FALSE]

(* A redo counts as "right after apply" only until the next call *)
Settled(t) == IF t.phase = "redo_after_apply" THEN Untracked ELSE t

AfterApply(session_id, r) ==
  IF Succeeded(r.ret)
  THEN [session_id |-> session_id, phase |-> "applied", code |-> r.ret.new_code,
        redo_before |-> active_sessions[session_id].redo_stack # <<>>]
  ELSE IF trail.session_id = session_id THEN Untracked ELSE Settled(trail)

CreateSession ==
  /\ sessions_created < MaxSessions
  /\ sessions_created + edits_made < MaxChanges
  /\ \E code \in InitialCodes :
       LET session_id == sessions_created + 1
       IN /\ active_sessions' =
               [k \in DOMAIN active_sessions \cup {session_id} |->
                  IF k = session_id THEN NewSession(code) ELSE active_sessions[k]]
          /\ call' = Called("create_session", session_id)
          /\ ret' = [session_id |-> session_id]
          /\ trail' = Settled(trail)
  /\ sessions_created' = sessions_created + 1
  /\ UNCHANGED edits_made

ApplyEditOperation ==
  /\ edits_made < MaxEdits
  /\ sessions_created + edits_made < MaxChanges
  /\ \E session_id \in SessionIds, operation \in EditOperations :
       LET r == apply_edit_operation(active_sessions, session_id, operation)
       IN /\ active_sessions' = r.sessions
          /\ ret' = r.ret
          /\ call' = Called("apply_edit_operation", session_id)
          /\ edits_made' = IF Succeeded(r.ret) THEN edits_made + 1 ELSE edits_made
          /\ trail' = AfterApply(session_id, r)
  /\ UNCHANGED sessions_created

ApplyRecommendation ==
  /\ edits_made < MaxEdits
  /\ sessions_created + edits_made < MaxChanges
  /\ \E session_id \in SessionIds, recommendation \in Recommendations :
       LET r == apply_recommendation(active_sessions, session_id, recommendation)
       IN /\ active_sessions' = r.sessions
          /\ ret' = r.ret
          /\ call' = [op |-> "apply_recommendation",
                       known |-> session_id \in DOMAIN active_sessions,
                       session_id |-> session_id,
                       recommendation |-> recommendation]
          /\ edits_made' = IF Succeeded(r.ret) THEN edits_made + 1 ELSE edits_made
          /\ trail' = AfterApply(session_id, r)
  /\ UNCHANGED sessions_created

ApplyRecommendations ==
  /\ \E session_id \in {Nothing} \cup {Some(k) : k \in SessionIds},
        code \in InitialCodes,
        recommendations \in BoundedSeq(Recommendations, MaxEdits) :
       /\ sessions_created + (IF IsSome(session_id) THEN 0 ELSE 1) <= MaxSessions
       /\ edits_made + Len(recommendations) <= MaxEdits
       /\ sessions_created + (IF IsSome(session_id) THEN 0 ELSE 1)
            + edits_made + Len(recommendations) <= MaxChanges
       /\ \E r \in {apply_recommendations(active_sessions, code, recommendations,
                                          session_id, sessions_created + 1)} :
            /\ active_sessions' = r.sessions
            /\ ret' = r.ret
            /\ edits_made' = edits_made + r.ret.applied_count
            /\ trail' = IF r.ret.applied_count > 0
                           /\ trail.session_id = r.ret.session_id
                        THEN Untracked ELSE Settled(trail)
       /\ call' = [op |-> "apply_recommendations",
                   known |-> IsSome(session_id)
                             /\ Get(session_id) \in DOMAIN active_sessions,
                   session_id |-> session_id,
                   recommendations |-> recommendations]
       /\ sessions_created' = sessions_created + (IF IsSome(session_id) THEN 0 ELSE 1)

UndoLastEdit ==
  /\ \E session_id \in SessionIds :
       LET r == undo_last_edit(active_sessions, session_id)
       IN /\ active_sessions' = r.sessions
          /\ ret' = r.ret
          /\ call' = Called("undo_last_edit", session_id)
          /\ trail' = IF trail.session_id # session_id THEN Settled(trail)
                       ELSE IF Succeeded(r.ret) /\ trail.phase = "applied"
                       THEN [trail EXCEPT !.phase = "undone"]
                       ELSE Untracked
  /\ UNCHANGED <<sessions_created, edits_made>>

RedoLastEdit ==
  /\ \E session_id \in SessionIds :
       LET r == redo_last_edit(active_sessions, session_id)
       IN /\ active_sessions' = r.sessions
          /\ ret' = r.ret
          /\ call' = Called("redo_last_edit", session_id)
          /\ trail' = IF trail.session_id # session_id THEN Settled(trail)
                       ELSE IF trail.phase = "applied"
                       THEN [trail EXCEPT !.phase = "redo_after_apply"]
                       ELSE IF Succeeded(r.ret) /\ trail.phase = "undone"
                       THEN [trail EXCEPT !.phase = "redone"]
                       ELSE Untracked
  /\ UNCHANGED <<sessions_created, edits_made>>

GetSessionDiff ==
  /\ \E session_id \in SessionIds :
       /\ ret' = Returned(get_session_diff(active_sessions, session_id))
       /\ call' = Called("get_session_diff", session_id)
  /\ trail' = Settled(trail)
  /\ UNCHANGED <<active_sessions, sessions_created, edits_made>>

FinalizeSession ==
  /\ \E session_id \in SessionIds :
       LET r == finalize_session(active_sessions, session_id)
       IN /\ active_sessions' = r.sessions
          /\ ret' = Returned(r.ret)
          /\ call' = Called("finalize_session", session_id)
          /\ trail' = IF trail.session_id = session_id THEN Untracked ELSE Settled(trail)
  /\ UNCHANGED <<sessions_created, edits_made>>

(* ------------------------------------------------------------------------ *)
(* Fix application (ai_agents.py CodeFixerAgent, agents_v2/fix_agent.py,     *)
(* main.py fix_issue)                                                        *)
(* ------------------------------------------------------------------------ *)
Whitespace == {" ", NL}

WordChars == {"a", "b", "c"}

(* The three backticks of a code fence, as one character *)
Fence == "fence"

(* str.strip() *)
strip(s) ==
  LET solid == {i \in 1..Len(s) : s[i] \notin Whitespace}
  IN IF solid = {} THEN <<>>
     ELSE SubSeq(s, CHOOSE i \in solid : \A j \in solid : i <= j,
                    CHOOSE i \in solid : \A j \in solid : j <= i)

(* sub in s *)
contains(sub, s) ==
  \E i \in 0..(Len(s) - Len(sub)) : SubSeq(s, i + 1, i + Len(sub)) = sub

Truthy_str(o) == IsSome(o) /\ Get(o) # <<>>

(* re.sub of an opening fence, MULTILINE: a line that is a fence followed   *)
(* by word characters goes, with its newline; the last line has no newline  *)
(* after it and stays.                                                      *)
IsFenceLine(line) ==
  /\ Len(line) >= 1
  /\ line[1] = Fence
  /\ \A i \in 2..Len(line) : line[i] \in WordChars

strip_opening_fences(text) ==
  LET lines == split(text)
      keep == {i \in 1..Len(lines) : i = Len(lines) \/ ~IsFenceLine(lines[i])}
  IN join([p \in 1..Cardinality(keep) |->
             lines[CHOOSE i \in keep : Cardinality({j \in keep : j < i}) = p - 1]])

(* re.sub of a closing fence: a newline and a fence at the end of the text  *)
(* or just before a final newline.                                          *)
strip_closing_fence(text) ==
  LET n == Len(text)
  IN IF n >= 3 /\ SubSeq(text, n - 2, n) = <<NL, Fence, NL>>
     THEN SubSeq(text, 1, n - 3) \o <<NL>>
     ELSE IF n >= 2 /\ SubSeq(text, n - 1, n) = <<NL, Fence>>
     THEN SubSeq(text, 1, n - 2)
     ELSE text

(* The line loop of CodeFixerAgent.apply_fix: index of the first line that  *)
(* contains the snippet, 0 if none.                                         *)
first_matching_line(lines, snippet) ==
  LET hits == {i \in 1..Len(lines) : contains(strip(snippet), strip(lines[i]))}
  IN IF hits = {} THEN 0 ELSE CHOOSE i \in hits : \A j \in hits : i <= j

(* CodeFixerAgent.apply_fix; reply is what the chat completion produced:    *)
(* content text, a message with content None, or an exception.              *)
legacy_apply_fix(original_code, issue, reply) ==
  IF ~Truthy_str(issue.suggested_fix)
  THEN [code |-> original_code, success |-> FALSE]
  ELSE LET lines == split(original_code)
           hit == IF issue.line_number # 0 /\ Truthy_str(issue.code_snippet)
                  THEN first_matching_line(lines, Get(issue.code_snippet))
                  ELSE 0
       IN IF hit # 0
          THEN [code |-> join([lines EXCEPT ![hit] = Get(issue.suggested_fix)]),
                success |-> TRUE]
          ELSE IF reply.kind = "content"
          THEN [code |-> strip(strip_closing_fence(strip_opening_fences(reply.content))),
                success |-> TRUE]
          ELSE [code |-> original_code, success |-> FALSE]

(* CodeFixAgent.apply_fix (agents_v2): the fixed code of the returned pair  *)
apply_fix(code, recommendation) ==
  str_replace(code, recommendation.original_code, recommendation.suggested_code)

(* main.py fix_issue with request.apply_fix set: the FixIssueResponse *)
fix_issue(original_code, code_snippet, suggested_fix) ==
  LET recommendation == [original_code |-> OrEmpty(code_snippet),
                         suggested_code |-> OrEmpty(suggested_fix)]
      updated_code == apply_fix(original_code, recommendation)
      success == updated_code # original_code
  IN [success |-> success,
      updated_code |-> IF success THEN Some(updated_code) ELSE Nothing]

(* Inputs *)
FixCodes == {<<"a">>, <<"a", NL, " ", "b">>, <<"b", NL, "b">>}

FixSnippets == {Nothing, Some(<<>>), Some(<<"a">>), Some(<<"b", " ">>), Some(<<"c">>)}

FixSuggestions == {Nothing, Some(<<>>), Some(<<"a">>), Some(<<"b">>)}

FixReplies ==
  {[kind |-> "raise"], [kind |-> "none"]}
  \cup {[kind |-> "content", content |-> c] :
          c \in {<<"a">>, <<"c">>, <<"b", NL, "b", NL>>,
                 <<Fence, "a", NL, "c", NL, Fence>>,
                 <<Fence, NL, "a", NL, Fence, NL>>}}

(* One call per behaviour: the appliers keep no state between calls *)
LegacyApplyFix ==
  /\ fcall.op = "none"
  /\ \E original_code \in FixCodes, line_number \in {0, 1},
        code_snippet \in FixSnippets, suggested_fix \in FixSuggestions,
        reply \in FixReplies :
       LET issue == [line_number |-> line_number, code_snippet |-> code_snippet,
                     suggested_fix |-> suggested_fix]
       IN /\ fcall' = [op |-> "legacy_apply_fix", code |-> original_code,
                       issue |-> issue, reply |-> reply]
          /\ fret' = legacy_apply_fix(original_code, issue, reply)

FixIssue ==
  /\ fcall.op = "none"
  /\ \E original_code \in FixCodes, code_snippet \in FixSnippets,
        suggested_fix \in FixSuggestions :
       /\ fcall' = [op |-> "fix_issue", code |-> original_code,
                    issue |-> [code_snippet |-> code_snippet,
                               suggested_fix |-> suggested_fix]]
       /\ fret' = fix_issue(original_code, code_snippet, suggested_fix)

(* ------------------------------------------------------------------------ *)
(* Response parsing: AIAgent._get_issues_from_ai (ai_agents.py) and the   *)
(* block parser of the v2 performance agent (performance_agent.py)          *)
(* ------------------------------------------------------------------------ *)
(* A string that the parser takes apart is a sequence of characters. *)
Digits == <<"0", "1", "2", "3", "4", "5", "6", "7", "8", "9">>

IsDigit(c) == \E i \in 1..10 : Digits[i] = c

DigitValue(c) == (CHOOSE i \in 1..10 : Digits[i] = c) - 1

RECURSIVE digits_value(_)
digits_value(s) ==
  IF s = <<>> THEN 0
  ELSE 10 * digits_value(SubSeq(s, 1, Len(s) - 1)) + DigitValue(s[Len(s)])

(* int(s) of a string: Some(n), Nothing where Python raises ValueError. *)
py_int(s) ==
  LET negative == s # <<>> /\ s[1] = "-"
      body == IF negative THEN Tail(s) ELSE s
  IN IF body # <<>> /\ \A i \in 1..Len(body) : IsDigit(body[i])
     THEN Some(IF negative THEN 0 - digits_value(body) ELSE digits_value(body))
     ELSE Nothing

RECURSIVE str_of_nat(_)
str_of_nat(n) ==
  IF n < 10 THEN <<Digits[n + 1]>>
  ELSE str_of_nat(n \div 10) \o <<Digits[(n % 10) + 1]>>

(* str(n) of an integer *)
py_str(n) == IF n < 0 THEN <<"-">> \o str_of_nat(0 - n) ELSE str_of_nat(n)

(* s.split("-")[0] *)
before_dash(s) ==
  LET dashes == {i \in 1..Len(s) : s[i] = "-"}
  IN IF dashes = {} THEN s
     ELSE SubSeq(s, 1, (CHOOSE i \in dashes : \A j \in dashes : i <= j) - 1)

(* The characters of the numbers the replies use *)
chars(s) ==
  CASE s = "3" -> <<"3">>
    [] s = "7" -> <<"7">>
    [] s = "12-15" -> <<"1", "2", "-", "1", "5">>
    [] OTHER -> <<"x">>

(* JSON values that an issue object carries in line_number_range *)
JInt(n) == [j |-> "int", n |-> n, s |-> <<>>]

JStr(s) == [j |-> "str", n |-> 0, s |-> s]

JNull == [j |-> "null", n |-> 0, s |-> <<>>]

(* Python truth value of a decoded JSON value *)
Truthy_json(v) ==
  \/ v.j = "int" /\ v.n # 0
  \/ v.j = "str" /\ v.s # <<>>

(* str(line_range) *)
str_json(v) == IF v.j = "int" THEN py_str(v.n) ELSE v.s

line_number_of_no_split(issue_data) ==
  LET line_range == issue_data.line_number_range
  IN IF ~IsSome(line_range) \/ ~Truthy_json(Get(line_range))
     THEN Some(Nothing)
     ELSE LET n == py_int(str_json(Get(line_range)))
          IN IF IsSome(n) THEN Some(n) ELSE Nothing

(* Lines 93-100 of _get_issues_from_ai: Some(line_number), where            *)
(* line_number is itself None or an integer; Nothing where int() raises.    *)
line_number_of(issue_data) ==
  LET line_range == issue_data.line_number_range
  IN IF ~IsSome(line_range) \/ ~Truthy_json(Get(line_range))
     THEN Some(Nothing)
     ELSE LET s == str_json(Get(line_range))
              n == IF \E i \in 1..Len(s) : s[i] = "-"
                   THEN py_int(before_dash(s))
                   ELSE py_int(s)
          IN IF IsSome(n) THEN Some(n) ELSE Nothing

(* issue_data.get(key, default) *)
get_or(o, default) == IF IsSome(o) THEN Get(o) ELSE default

(* The legacy dataclass CodeIssue: a plain record, nothing is validated. *)
LegacyCodeIssue(title, severity, category, line_number) ==
  [title |-> title, severity |-> severity, category |-> category,
   line_number |-> line_number]

(* A reply text is a sequence of tokens: Tok(t, v) is a token of kind t     *)
(* that reads v, Obj(o) a JSON object with the members o.                    *)
NoMembers ==
  [issue_title |-> Nothing, severity |-> Nothing,
   category |-> Nothing, line_number_range |-> Nothing]

Tok(t, v) == [t |-> t, v |-> v, o |-> NoMembers]

Obj(o) == [t |-> "obj", v |-> "", o |-> o]

JsonValueKinds == {"obj", "num", "null", "str"}

(* json.dumps of a list of values *)
RECURSIVE json_items(_)
json_items(items) ==
  IF items = <<>> THEN <<>>
  ELSE IF Len(items) = 1 THEN items
  ELSE <<items[1], Tok(",", ",")>> \o json_items(Tail(items))

json_array(items) == <<Tok("[", "[")>> \o json_items(items) \o <<Tok("]", "]")>>

(* json.loads: Some(value), Nothing for json.JSONDecodeError.  A decoded    *)
(* array is [t |-> "array", v |-> its elements].                             *)
json_loads(text) ==
  IF Len(text) = 1 /\ text[1].t \in JsonValueKinds THEN Some(text[1])
  ELSE IF Len(text) >= 2 /\ text[1].t = "[" /\ text[Len(text)].t = "]"
  THEN LET inner == SubSeq(text, 2, Len(text) - 1)
           n == (Len(inner) + 1) \div 2
       IN IF inner = <<>> THEN Some([t |-> "array", v |-> <<>>])
          ELSE IF /\ Len(inner) % 2 = 1
                  /\ \A i \in 1..Len(inner) :
                       IF i % 2 = 1 THEN inner[i].t \in JsonValueKinds
                       ELSE inner[i].t = ","
          THEN Some([t |-> "array", v |-> [i \in 1..n |-> inner[2 * i - 1]]])
          ELSE Nothing
  ELSE Nothing

(* The keys a decoded object has *)
HasKeys(o) ==
  \/ IsSome(o.issue_title) \/ IsSome(o.severity)
  \/ IsSome(o.category) \/ IsSome(o.line_number_range)

(* Lines 91-115: the loop over issues_data.  Some(issues), or Nothing when  *)
(* the loop raises: a value that cannot be iterated, an element without     *)
(* .get, or a line range that int() rejects.                                *)
issues_of_data(issues_data) ==
  IF issues_data.t = "array"
  THEN LET items == issues_data.v
       IN IF \E i \in 1..Len(items) :
               \/ items[i].t # "obj"
               \/ ~IsSome(line_number_of(items[i].o))
          THEN Nothing
          ELSE Some([i \in 1..Len(items) |->
                 LegacyCodeIssue(
                   get_or(items[i].o.issue_title, "Unknown Issue"),
                   get_or(items[i].o.severity, "medium"),
                   get_or(items[i].o.category, "quality"),
                   Get(line_number_of(items[i].o)))])
  ELSE IF issues_data.t = "obj" /\ ~HasKeys(issues_data.o) THEN Some(<<>>)
  ELSE Nothing

(* str.lower() on the words the replies use *)
lower(s) ==
  CASE s = "HIGH" -> "high"
    [] s = "Critical" -> "critical"
    [] OTHER -> s

SetMin(S) == CHOOSE i \in S : \A j \in S : i <= j

(* re.findall of                                                             *)
(*   \*\*(.*?)\*\*\s*\((.*?)\)(.*?)(?=\*\*|$)                                *)
(* from token `from` on.  A "bold" token is a title between two pairs of    *)
(* asterisks, a "paren" token a parenthesised group.  A match starts at the *)
(* first bold token, its title runs lazily up to the first bold token that  *)
(* a parenthesised group follows, and its description runs up to the next   *)
(* bold token or the end of the text.                                        *)
RECURSIVE nl_matches(_, _)
nl_matches(text, from) ==
  LET closers == {k \in from..(Len(text) - 1) :
                    text[k].t = "bold" /\ text[k + 1].t = "paren"}
  IN IF closers = {} THEN <<>>
     ELSE The({
       <<[title |-> [j \in 1..(k - i + 1) |-> text[i + j - 1].v], severity |-> text[k + 1].v,
          description |-> SubSeq(text, k + 2, stop - 1)]>>
         \o nl_matches(text, stop) :
       <<i, k, stop>> \in {<<SetMin({j \in from..SetMin(closers) : text[j].t = "bold"}),
                            SetMin(closers),
                            SetMin({j \in (SetMin(closers) + 2)..Len(text) :
                                      text[j].t = "bold"} \cup {Len(text) + 1})>>}})

(* re.search(r'line\s+(\d+)', description, re.IGNORECASE): a "line" token   *)
(* is the word line followed by the digits v.                                *)
line_search(description) ==
  LET hits == {i \in 1..Len(description) : description[i].t = "line"}
  IN IF hits = {} THEN Nothing
     ELSE Some(digits_value(chars(description[SetMin(hits)].v)))

(* self.name.lower().replace("agent", "").strip() *)
legacy_category(name) ==
  CASE name = "Security Analysis Agent"        -> "security analysis"
    [] name = "Performance Optimization Agent" -> "performance optimization"
    [] name = "Code Quality Agent"             -> "code quality"
    [] name = "Best Practices Agent"           -> "best practices"
    [] name = "Maintainability Agent"          -> "maintainability"

(* AIAgent._parse_natural_language_response *)
parse_natural_language_response(name, response) ==
  LET matches == nl_matches(response, 1)
  IN [m \in 1..Len(matches) |->
        LegacyCodeIssue(
          matches[m].title,
          IF lower(matches[m].severity) \in {"low", "medium", "high", "critical"}
          THEN lower(matches[m].severity) ELSE "medium",
          legacy_category(name),
          line_search(matches[m].description))]

(* The try body of _get_issues_from_ai: the exception it ends with, if any. *)
(* A failed completion call and a reply without content (slicing None)      *)
(* both end in an exception other than JSONDecodeError.                      *)
try_get_issues(reply) ==
  IF reply.kind = "error" \/ ~IsSome(reply.content)
  THEN [exc |-> "Exception"]
  ELSE LET issues_data == json_loads(Get(reply.content))
       IN IF ~IsSome(issues_data)
          THEN [exc |-> "JSONDecodeError", ai_response |-> Get(reply.content)]
          ELSE LET issues == issues_of_data(Get(issues_data))
               IN IF IsSome(issues)
                  THEN [exc |-> "none", issues |-> Get(issues)]
                  ELSE [exc |-> "Exception"]

get_issues_from_ai_no_except(name, reply) ==
  LET r == try_get_issues(reply)
  IN IF r.exc = "none" THEN [raised |-> FALSE, issues |-> r.issues]
     ELSE IF r.exc = "JSONDecodeError"
     THEN [raised |-> FALSE,
           issues |-> parse_natural_language_response(name, r.ai_response)]
     ELSE [raised |-> TRUE, issues |-> <<>>]

(* AIAgent._get_issues_from_ai *)
get_issues_from_ai(name, reply) ==
  LET r == try_get_issues(reply)
  IN IF r.exc = "none" THEN [raised |-> FALSE, issues |-> r.issues]
     ELSE IF r.exc = "JSONDecodeError"
     THEN [raised |-> FALSE,
           issues |-> parse_natural_language_response(name, r.ai_response)]
     ELSE [raised |-> FALSE, issues |-> <<>>]

block_at(ai_response, i) ==
  LET marks == {j \in (i + 1)..Len(ai_response) : ai_response[j].t = "ISSUE:"}
  IN SubSeq(ai_response, i + 1, SetMin(marks \cup {Len(ai_response) + 1}) - 1)

(* ai_response.split("ISSUE:")[1:] with the blank blocks skipped: the       *)
(* positions of the markers that a block follows.                            *)
issue_blocks(ai_response) ==
  {i \in 1..Len(ai_response) :
     ai_response[i].t = "ISSUE:" /\ block_at(ai_response, i) # <<>>}

(* The digits that \d+ takes at the start of s *)
RECURSIVE leading_digits(_)
leading_digits(s) ==
  IF s = <<>> \/ ~IsDigit(s[1]) THEN <<>>
  ELSE <<s[1]>> \o leading_digits(Tail(s))

(* A token of kind "- Line:", "- Type:" or "- Severity:" is one line of a   *)
(* block, the field name followed by the value v.                            *)
HasNumber(tok) == tok.t = "- Line:" /\ leading_digits(chars(tok.v)) # <<>>

SetMax(S) == CHOOSE i \in S : \A j \in S : i >= j

(* The loop over block.split('\n') for the Line field: the last line of the *)
(* form `- Line: <digits>` wins.                                             *)
field_line_num(block) ==
  LET hits == {i \in 1..Len(block) : HasNumber(block[i])}
  IN IF hits = {} THEN Nothing
     ELSE Some(digits_value(leading_digits(chars(block[SetMax(hits)].v))))

(* re.search(r'(?:Line|line)[\s:]+(\d+)', block, re.IGNORECASE) *)
block_line_search(block) ==
  LET hits == {i \in 1..Len(block) : HasNumber(block[i]) \/ block[i].t = "line"}
  IN IF hits = {} THEN Nothing
     ELSE LET tok == block[SetMin(hits)]
          IN Some(digits_value(leading_digits(chars(tok.v))))

block_line_num(block) ==
  LET line_num == field_line_num(block)
  IN IF IsSome(line_num) /\ Get(line_num) # 0 THEN Get(line_num)
     ELSE IF IsSome(block_line_search(block)) THEN Get(block_line_search(block))
     ELSE 1

block_severity(block) ==
  LET hits == {i \in 1..Len(block) :
                 /\ block[i].t = "- Severity:"
                 /\ lower(block[i].v) \in {"critical", "high", "medium", "low"}}
  IN IF hits = {} THEN "medium" ELSE lower(block[SetMax(hits)].v)

block_issue_type(block) ==
  LET hits == {i \in 1..Len(block) : block[i].t = "- Type:"}
  IN IF hits = {} THEN "Performance Issue" ELSE block[SetMax(hits)].v

(* SeverityLevel(severity): Some(member), Nothing for ValueError *)
SeverityLevelOf(severity) ==
  IF severity \in SeverityLevel THEN Some(severity) ELSE Nothing

(* The try body of PerformanceAnalysisAgent._perform_analysis *)
try_perform_analysis(reply) ==
  IF reply.kind = "error" \/ ~IsSome(reply.content)
  THEN [exc |-> "Exception", issues |-> <<>>]
  ELSE LET ai_response == Get(reply.content)
           starts == issue_blocks(ai_response)
           order == [n \in 1..Cardinality(starts) |->
                       CHOOSE i \in starts :
                         Cardinality({j \in starts : j < i}) = n - 1]
       IN IF \E n \in DOMAIN order :
               ~IsSome(SeverityLevelOf(block_severity(block_at(ai_response, order[n]))))
          THEN [exc |-> "Exception", issues |-> <<>>]
          ELSE [exc |-> "none",
                issues |-> [n \in DOMAIN order |->
                  LET block == block_at(ai_response, order[n])
                  IN [title |-> block_issue_type(block),
                      severity |-> Get(SeverityLevelOf(block_severity(block))),
                      category |-> "performance",
                      location |-> [line_start |-> block_line_num(block),
                                    line_end |-> block_line_num(block)],
                      detected_by |-> agents.performance_agent]]]

(* PerformanceAnalysisAgent._perform_analysis: the except branch logs, and  *)
(* the function returns the issues collected so far.                         *)
perform_analysis(reply) ==
  LET r == try_perform_analysis(reply)
  IN [raised |-> FALSE, issues |-> r.issues]

(* The try body of SecurityAnalysisAgent._perform_analysis.  The reply is   *)
(* read line by line, and every token stands on a line of its own.  Only a  *)
(* line on which the word line is followed by a number gives an issue       *)
(* (security_agent.py:238-240); every other line is passed over.  A line of *)
(* that form names no severity word, so the severity stays "medium".        *)
try_security_analysis(reply) ==
  IF reply.kind = "error" \/ ~IsSome(reply.content)
  THEN [exc |-> "Exception", issues |-> <<>>]
  ELSE LET ai_response == Get(reply.content)
           hits == {i \in 1..Len(ai_response) : ai_response[i].t = "line"}
           order == [n \in 1..Cardinality(hits) |->
                       CHOOSE i \in hits :
                         Cardinality({j \in hits : j < i}) = n - 1]
       IN [exc |-> "none",
           issues |-> [n \in DOMAIN order |->
             [title |-> "Security Issue",
              severity |-> Get(SeverityLevelOf("medium")),
              category |-> "security",
              location |->
                [line_start |-> digits_value(chars(ai_response[order[n]].v)),
                 line_end |-> digits_value(chars(ai_response[order[n]].v))],
              detected_by |-> agents.security_agent]]]

(* SecurityAnalysisAgent._perform_analysis *)
security_perform_analysis(reply) ==
  LET r == try_security_analysis(reply)
  IN [raised |-> FALSE, issues |-> r.issues]

(* CodeAnalyzerAgent._perform_analysis: the issues built from what the      *)
(* agent's tools report.  found.naming and found.smells are the lists of    *)
(* check_naming_conventions and detect_code_smells, found.complex and       *)
(* found.undocumented the two tests on analyze_complexity.                   *)
V2Issue(title, severity, category, name) ==
  [title |-> title, severity |-> severity, category |-> category,
   detected_by |-> name]

smell_issue(smell, name) ==
  CASE smell.type = "long_function" ->
         <<V2Issue("Long Function Detected", smell.severity, "maintainability", name)>>
    [] smell.type = "duplicate_code" ->
         <<V2Issue("Duplicate Code Detected", smell.severity, "maintainability", name)>>
    [] smell.type = "deep_nesting" ->
         <<V2Issue("Deep Nesting", smell.severity, "quality", name)>>
    [] OTHER -> <<>>

RECURSIVE smell_issues(_, _)
smell_issues(smells, name) ==
  IF smells = <<>> THEN <<>>
  ELSE smell_issue(Head(smells), name) \o smell_issues(Tail(smells), name)

code_analyzer_perform_analysis(found) ==
  LET name == agents.code_analyzer
  IN [raised |-> FALSE,
      issues |->
        [k \in 1..Len(found.naming) |->
           V2Issue("Naming Convention Violation", found.naming[k].severity,
                   "style", name)]
        \o smell_issues(found.smells, name)
        \o (IF found.complex
            THEN <<V2Issue("High Code Complexity", "medium", "maintainability", name)>>
            ELSE <<>>)
        \o (IF found.undocumented
            THEN <<V2Issue("Insufficient Documentation", "low", "best_practices", name)>>
            ELSE <<>>)]

(* What the tools of the code analyzer are taken to report here. *)
ToolFindings ==
  [naming : BoundedSeq({[severity |-> "low"]}, MaxIssuesPerAgent),
   smells : BoundedSeq({[type |-> "long_function", severity |-> "medium"],
                        [type |-> "duplicate_code", severity |-> "medium"],
                        [type |-> "deep_nesting", severity |-> "medium"]},
                       MaxIssuesPerAgent),
   complex : BOOLEAN,
   undocumented : BOOLEAN]

(* Issue lists _generate_summary is fed with here: two of the severities    *)
(* and four of the categories, in every order.                               *)
SummaryIssues ==
  BoundedSeq([severity : {"high", "info"},
              category : {"security", "performance", "style", "quality"}],
             MaxSummaryIssues)

(* Delete operations apply_edit_operation is fed with here: a code of up to *)
(* MaxLines lines and a range line_start..line_end inside it, line_end      *)
(* given or absent.                                                          *)
LineTexts == <<"a", "b", "c", "d">>

CodeOfLines(n) == join([i \in 1..n |-> <<LineTexts[i]>>])

DeleteCalls ==
  {[code |-> CodeOfLines(n),
    operation |-> Operation("delete", Location(ls, le), Nothing, Nothing)] :
     <<n, ls, le>> \in
       {t \in (1..MaxLines) \X (1..MaxLines) \X ({Nothing} \cup {Some(e) : e \in 1..MaxLines}) :
          /\ t[2] <= t[1]
          /\ IsSome(t[3]) => (t[2] <= Get(t[3]) /\ Get(t[3]) <= t[1])}}

(* Replies the parsers are fed with here. *)
BaseObject ==
  [issue_title |-> Some("T1"), severity |-> Some("high"),
   category |-> Some("security"), line_number_range |-> Nothing]

LineRanges ==
  {JNull, JInt(0), JInt(8), JInt(0 - 3),
   JStr(<<"1", "2", "-", "1", "5">>), JStr(<<"8">>), JStr(<<>>),
   JStr(<<"a">>), JStr(<<"-", "5">>)}

JsonObjects ==
  {BaseObject, NoMembers}
  \cup {[BaseObject EXCEPT !.line_number_range = Some(r)] : r \in LineRanges}
  \cup {[BaseObject EXCEPT !.issue_title = Some("T2"),
                           !.severity = Some("blocker"),
                           !.category = Some("logic")],
        [BaseObject EXCEPT !.severity = Some("info"),
                           !.category = Some("bug")]}

JsonItems == {Obj(o) : o \in JsonObjects} \cup {Tok("num", "7")}

JsonArrayTexts == {json_array(items) : items \in BoundedSeq(JsonItems, MaxReplyItems)}

JsonOtherTexts ==
  {<<Obj(BaseObject)>>, <<Obj(NoMembers)>>,
   <<Tok("num", "7")>>, <<Tok("null", "null")>>, <<Tok("str", "s")>>}

FreeTokens ==
  {Tok("ISSUE:", "ISSUE:"), Tok("bold", "T1"), Tok("paren", "HIGH"),
   Tok("line", "7"), Tok("- Line:", "3"), Tok("- Severity:", "HIGH"),
   Tok("- Severity:", "blocker")}

(* Text that is not JSON, the empty reply, and a JSON array cut short *)
FreeformTexts ==
  BoundedSeq(FreeTokens, MaxReplyTokens)
  \cup {<<Tok("[", "["), Obj(BaseObject)>>,
        <<Tok("[", "["), Obj(BaseObject), Tok(",", ","), Tok("]", "]")>>}

ReplyTexts == JsonArrayTexts \cup JsonOtherTexts \cup FreeformTexts

(* A completion call that raised, a reply whose content is None, a text *)
ParserReplies ==
  {[kind |-> "error", content |-> Nothing],
   [kind |-> "content", content |-> Nothing]}
  \cup {[kind |-> "content", content |-> Some(text)] : text \in ReplyTexts}

GetIssuesFromAi ==
  /\ fcall.op = "none"
  /\ \E i \in DOMAIN legacy_agents, reply \in ParserReplies :
       /\ fcall' = [op |-> "get_issues_from_ai", name |-> legacy_agents[i],
                    reply |-> reply]
       /\ fret' = get_issues_from_ai(legacy_agents[i], reply)

PerformAnalysis ==
  /\ fcall.op = "none"
  /\ \E reply \in ParserReplies :
       /\ fcall' = [op |-> "perform_analysis", reply |-> reply]
       /\ fret' = perform_analysis(reply)

SecurityPerformAnalysis ==
  /\ fcall.op = "none"
  /\ \E reply \in ParserReplies :
       /\ fcall' = [op |-> "security_perform_analysis", reply |-> reply]
       /\ fret' = security_perform_analysis(reply)

GenerateSummary ==
  /\ fcall.op = "none"
  /\ \E issues \in SummaryIssues :
       /\ fcall' = [op |-> "generate_summary", issues |-> issues]
       /\ fret' = generate_summary(issues)

(* apply_edit_operation with a delete on a session that was just created *)
ApplyDelete ==
  /\ fcall.op = "none"
  /\ \E c \in DeleteCalls :
       /\ fcall' = [op |-> "apply_delete", code |-> c.code, operation |-> c.operation]
       /\ fret' = apply_edit_operation(<<NewSession(c.code)>>, 1, c.operation)

CodeAnalyzerPerformAnalysis ==
  /\ fcall.op = "none"
  /\ \E found \in ToolFindings :
       /\ fcall' = [op |-> "code_analyzer_perform_analysis", found |-> found]
       /\ fret' = code_analyzer_perform_analysis(found)

(* ------------------------------------------------------------------------ *)
(* Concurrent requests on one session: websocket_session (api_v2.py) on top *)
(* of CodeEditorAgent.apply_recommendation                                   *)
(* ------------------------------------------------------------------------ *)
(* Every connection is one task of the event loop.  A task stands at an     *)
(* await; socks[t].pc names it.  A step of a task runs the code from one    *)
(* await to the next.  An await of network input or output hands the loop   *)
(* to the other tasks; an await of a coroutine whose body holds no await    *)
(* (apply_edit_operation, validate_session_code, get_session_diff) runs the *)
(* body in place and goes on.                                                *)
Sockets == 1..MaxSockets

(* session_id of the websocket path *)
SocketSession == 1

Suspends_at_every_await(point) == TRUE

Suspends(point) == point \in {"connect", "receive_json", "send_result", "send_status"}

SocketRecommendations ==
  Recommendations
  \cup {[issue_id |-> 2, original_code |-> <<"b">>, suggested_code |-> <<")">>]}

IdleSocket(point) ==
  [pc |-> point, recommendation |-> Nothing, new_code |-> Nothing,
   stored |-> Nothing, raised |-> FALSE]

Runnable(t) == running \in {0, t}

(* Task t goes on to the await `point` with the locals s. *)
GoTo(t, point, s) ==
  /\ socks' = [socks EXCEPT ![t] = [s EXCEPT !.pc = point]]
  /\ running' = IF Suspends(point) THEN 0 ELSE t

(* The operation apply_recommendation builds (editor_agent.py:318-330) *)
RecommendationOperation(recommendation) ==
  [type |-> "replace", line_start |-> 1, line_end |-> Some(1),
   original_content |-> Some(recommendation.original_code),
   new_content |-> Some(recommendation.suggested_code),
   description |-> "recommendation",
   recommendation_id |-> Some(recommendation.issue_id),
   applied |-> FALSE]

(* await manager.connect(websocket), then get_session_status: the handler   *)
(* returns when the session is unknown.                                      *)
SocketConnect(t) ==
  /\ socks[t].pc = "connect" /\ Runnable(t)
  /\ IF SocketSession \in DOMAIN active_sessions
     THEN GoTo(t, "send_status", socks[t])
     ELSE GoTo(t, "closed", socks[t])
  /\ UNCHANGED evars

(* data = await websocket.receive_json(): a get_status message, or an       *)
(* apply_recommendation message, which runs apply_recommendation up to its  *)
(* first await.                                                              *)
SocketReceive(t) ==
  /\ socks[t].pc = "receive_json" /\ Runnable(t)
  /\ edits_made < MaxEdits
  /\ \/ GoTo(t, "send_status", IdleSocket("receive_json"))
     \/ \E recommendation \in SocketRecommendations :
          IF SocketSession \notin DOMAIN active_sessions
          THEN GoTo(t, "send_result", IdleSocket("receive_json"))
          ELSE GoTo(t, "apply_edit_operation",
                    [IdleSocket("receive_json") EXCEPT
                       !.recommendation = Some(recommendation)])
  /\ UNCHANGED evars

(* result = await self.agent.tools.apply_edit_operation(session_id, operation) *)
SocketApplyEdit(t) ==
  /\ socks[t].pc = "apply_edit_operation" /\ Runnable(t)
  /\ \E r \in {apply_edit_operation(active_sessions, SocketSession,
                 RecommendationOperation(Get(socks[t].recommendation)))} :
       /\ active_sessions' = r.sessions
       /\ IF Succeeded(r.ret)
          THEN /\ GoTo(t, "validate_session_code",
                       [socks[t] EXCEPT !.new_code = Some(r.ret.new_code)])
               /\ edits_made' = edits_made + 1
          ELSE /\ GoTo(t, "send_result", socks[t])
               /\ UNCHANGED edits_made
  /\ UNCHANGED <<sessions_created, call, ret, trail>>

(* validation = await self.agent.tools.validate_session_code(session_id);   *)
(* self.active_sessions[session_id].validation_status = validation raises   *)
(* KeyError when the session is gone, which websocket_session catches.       *)
SocketValidate(t) ==
  /\ socks[t].pc = "validate_session_code" /\ Runnable(t)
  /\ \E validation \in {validate_session_code(active_sessions, SocketSession)} :
       IF SocketSession \in DOMAIN active_sessions
       THEN /\ active_sessions' = [active_sessions EXCEPT
                 ![SocketSession].validation_status = Some(validation)]
            /\ GoTo(t, "send_result",
                    [socks[t] EXCEPT !.stored =
                       Some([validation |-> validation,
                             code |-> active_sessions[SocketSession].current_code])])
       ELSE /\ UNCHANGED active_sessions
            /\ GoTo(t, "send_result", [socks[t] EXCEPT !.raised = TRUE])
  /\ UNCHANGED <<sessions_created, edits_made, call, ret, trail>>

(* await websocket.send_json(recommendation_applied or error), then          *)
(* get_session_status *)
SocketSendResult(t) ==
  /\ socks[t].pc = "send_result" /\ Runnable(t)
  /\ IF socks[t].raised
     THEN GoTo(t, "receive_json", socks[t])
     ELSE GoTo(t, "send_status", socks[t])
  /\ UNCHANGED evars

(* await websocket.send_json(session_status or session_updated) *)
SocketSendStatus(t) ==
  /\ socks[t].pc = "send_status" /\ Runnable(t)
  /\ GoTo(t, "receive_json", socks[t])
  /\ UNCHANGED evars

(* Another caller of the store creates the session or finalizes it. *)
SessionCreated ==
  /\ running = 0 /\ sessions_created = 0
  /\ \E code \in InitialCodes :
       active_sessions' = [k \in {SocketSession} |-> NewSession(code)]
  /\ sessions_created' = 1
  /\ UNCHANGED <<edits_made, call, ret, trail, socks, running>>

SessionFinalized ==
  /\ running = 0
  /\ SocketSession \in DOMAIN active_sessions
  /\ active_sessions' = finalize_session(active_sessions, SocketSession).sessions
  /\ UNCHANGED <<sessions_created, edits_made, call, ret, trail, socks, running>>

(* ------------------------------------------------------------------------ *)
(* Scoring harness: _calculate_score of both orchestrators on one list      *)
(* ------------------------------------------------------------------------ *)
ScoreIssue ==
  /\ Len(score_issues) < MaxScoreIssues
  /\ \E sev \in SeverityLevel :
       LET issues == Append(score_issues, [severity |-> sev])
       IN /\ score_issues' = issues
          /\ score_v2' = calculate_score(issues)
          /\ score_legacy' = legacy_calculate_score(issues)

(* ------------------------------------------------------------------------ *)
(* Specifications                                                            *)
(* ------------------------------------------------------------------------ *)
InitAnalysis ==
  /\ orch \in {"v2", "legacy"}
  /\ include_recommendations \in BOOLEAN
  /\ pc = "start"
  /\ agent_i = 1 /\ rec_i = 1
  /\ all_issues = <<>> /\ all_recommendations = <<>> /\ agent_results = <<>>
  /\ events = <<>> /\ result = Nothing /\ next_uuid = 0 /\ responses = <<>>

InitScore ==
  /\ score_issues = <<>>
  /\ score_v2 = calculate_score(<<>>)
  /\ score_legacy = legacy_calculate_score(<<>>)

(* self.active_sessions = {} *)
InitEditor ==
  /\ active_sessions = <<>>
  /\ sessions_created = 0
  /\ edits_made = 0
  /\ call = [op |-> "none", known |-> FALSE]
  /\ ret = [none |-> TRUE]
  /\ trail = Untracked

InitStateless ==
  /\ fcall = [op |-> "none"]
  /\ fret = [none |-> TRUE]

(* No connection has been accepted yet. *)
InitSockets ==
  /\ socks = [t \in Sockets |-> IdleSocket("connect")]
  /\ running = 0

Init == InitAnalysis /\ InitScore /\ InitEditor /\ InitStateless /\ InitSockets

NextAnalysis ==
  \/ StartAnalysis
  \/ AgentIteration
  \/ BeginRecommendations
  \/ SkipRecommendations
  \/ FixIteration
  \/ FinishAnalysis
  \/ LegacyAgentIteration
  \/ LegacyFinish

Next == NextAnalysis /\ UNCHANGED <<svars, evars, pvars, wvars>>

Spec == Init /\ [][Next]_vars

(* Every step of a run is an await or a yield that the event loop resumes. *)
FairSpec == Spec /\ WF_vars(Next)

InitIdleAnalysis == Init /\ orch = "v2" /\ include_recommendations

NextScore == ScoreIssue /\ UNCHANGED <<avars, evars, pvars, wvars>>

SpecScore == InitIdleAnalysis /\ [][NextScore]_vars

NextEditor ==
  /\ \/ CreateSession
     \/ ApplyEditOperation
     \/ ApplyRecommendation
     \/ ApplyRecommendations
     \/ UndoLastEdit
     \/ RedoLastEdit
     \/ GetSessionDiff
     \/ FinalizeSession
  /\ UNCHANGED <<avars, svars, pvars, wvars>>

SpecEditor == InitIdleAnalysis /\ [][NextEditor]_vars

NextFix ==
  (LegacyApplyFix \/ FixIssue) /\ UNCHANGED <<avars, svars, evars, wvars>>

SpecFix == InitIdleAnalysis /\ [][NextFix]_vars

NextParser ==
  (\/ GetIssuesFromAi
   \/ PerformAnalysis
   \/ SecurityPerformAnalysis
   \/ CodeAnalyzerPerformAnalysis
   \/ GenerateSummary
   \/ ApplyDelete)
  /\ UNCHANGED <<avars, svars, evars, wvars>>

SpecParser == InitIdleAnalysis /\ [][NextParser]_vars

NextSockets ==
  /\ \/ \E t \in Sockets :
          \/ SocketConnect(t)
          \/ SocketReceive(t)
          \/ SocketApplyEdit(t)
          \/ SocketValidate(t)
          \/ SocketSendResult(t)
          \/ SocketSendStatus(t)
     \/ SessionCreated
     \/ SessionFinalized
  /\ UNCHANGED <<avars, svars, pvars>>

SpecSockets == InitIdleAnalysis /\ [][NextSockets]_vars

(* ------------------------------------------------------------------------ *)
(* Properties                                                                *)
(* ------------------------------------------------------------------------ *)
Clamp(x, lo, hi) == IF x < lo THEN lo ELSE IF x > hi THEN hi ELSE x

Range(f) == {f[i] : i \in DOMAIN f}

StatedPenalty ==
  [critical |-> 25, high |-> 15, medium |-> 10, low |-> 5, info |-> 2]

RECURSIVE StatedPenaltySum(_)
StatedPenaltySum(issues) ==
  IF issues = <<>> THEN 0
  ELSE StatedPenalty[Head(issues).severity] + StatedPenaltySum(Tail(issues))

(* CodeIssue.severity of the legacy module is documented as one of          *)
(* critical, high, medium, low (ai_agents.py:21).                            *)
LegacySeverities == {"critical", "high", "medium", "low"}

NAgents == IF orch = "v2" THEN Len(analysis_agents) ELSE Len(legacy_agents)

(* C2: a run that produced no issues returns a valid result with            *)
(* overall_score 100 whose summary says that no issues were found (the      *)
(* "No issues found" sentence of AgentOrchestrator, a total of 0 in the     *)
(* legacy summary).                                                          *)
C2_EmptyRunScores100 ==
  (pc \in {"finish", "done", "raised"} /\ all_issues = <<>>) =>
     /\ pc # "raised"
     /\ pc = "done" =>
          /\ IsSome(result)
          /\ Get(result).issues = <<>>
          /\ Get(result).overall_score = 100
          /\ IF orch = "v2"
             THEN /\ AnalysisResultValid(Get(result))
                  /\ Get(result).summary.no_issues_found
                  /\ Get(result).recommendations = <<>>
             ELSE Get(result).summary.total = 0

(* A finished streaming run in which every agent failed. *)
C2_Witness ==
  /\ orch = "v2" /\ pc = "done"
  /\ Len(responses) = Len(analysis_agents)
  /\ \A i \in 1..Len(responses) : responses[i].kind # "ok"
  /\ Get(result).overall_score = 100

RECURSIVE ConcatIssues(_)
ConcatIssues(rs) ==
  IF rs = <<>> THEN <<>> ELSE Head(rs).issues \o ConcatIssues(Tail(rs))

(* C3: an agent that raises or fails does not abort the run: no exception   *)
(* reaches the caller, every agent is still run, and the issue list holds   *)
(* every issue returned by the agents that succeeded.                        *)
C3_AgentIsolation ==
  /\ pc # "raised"
  /\ all_issues = ConcatIssues(responses)
  /\ pc \in {"after_agents", "recs", "finish", "done"} => Len(responses) = NAgents
  /\ pc = "done" => Get(result).issues = ConcatIssues(responses)

(* A finished run where an agent failed or raised and a later agent's       *)
(* issues are in the result.                                                 *)
C3_Witness ==
  /\ pc = "done"
  /\ \E i, j \in 1..Len(responses) :
       /\ i < j
       /\ responses[i].kind = "raise"
       /\ responses[j].kind = "ok" /\ responses[j].issues # <<>>
       /\ \E k \in 1..Len(Get(result).issues) :
            Get(result).issues[k] = responses[j].issues[1]

(* C4: every agent whose analysis succeeded is listed in analyzed_by. *)
C4_SucceededAgentsListed ==
  (orch = "v2" /\ pc = "done") =>
     \A i \in 1..Len(responses) :
        responses[i].kind = "ok" =>
           responses[i].agent \in Range(Get(result).analyzed_by)

CompleteEvents == {i \in 1..Len(events) : events[i].type = "analysis_complete"}

RunCompleted ==
  /\ pc = "done"
  /\ Cardinality(CompleteEvents) = 1
  /\ events[Len(events)].type = "analysis_complete"
  /\ IsSome(result)
  /\ events[Len(events)].result = Get(result)
  /\ Get(result).overall_score \in 0..100
  /\ Get(result).issues = all_issues
  /\ Get(result).recommendations = all_recommendations

(* C5: every streaming run terminates: it eventually yields exactly one     *)
(* analysis_complete event, as the last event, carrying a complete result   *)
(* with a score in 0..100, whichever agents and fix steps failed.           *)
C5_StreamingTerminates == (orch = "v2") => <>[]RunCompleted

(* A completed run in which an agent failed and a fix step produced nothing. *)
C5_Witness ==
  /\ orch = "v2" /\ RunCompleted
  /\ \E i \in 1..Len(responses) : responses[i].kind # "ok"
  /\ include_recommendations
  /\ all_issues # <<>>
  /\ Len(all_recommendations) < Len(all_issues)

(* C6: in a result every recommendation refers to an issue of the same      *)
(* result, issue ids are pairwise distinct, there is at most one            *)
(* recommendation per issue, and none when include_recommendations is off.  *)
C6_RecommendationsReferToIssues ==
  (orch = "v2" /\ pc = "done") =>
     LET r == Get(result)
     IN /\ \A k \in 1..Len(r.recommendations) :
             \E i \in 1..Len(r.issues) : r.issues[i].id = r.recommendations[k].issue_id
        /\ \A i, j \in 1..Len(r.issues) : i # j => r.issues[i].id # r.issues[j].id
        /\ \A k, l \in 1..Len(r.recommendations) :
             k # l => r.recommendations[k].issue_id # r.recommendations[l].issue_id
        /\ ~include_recommendations => r.recommendations = <<>>

(* A result with at least two issues, a recommendation, and an issue        *)
(* without a recommendation.                                                 *)
C6_Witness ==
  /\ orch = "v2" /\ pc = "done"
  /\ Len(Get(result).issues) >= 2
  /\ Len(Get(result).recommendations) >= 1
  /\ Len(Get(result).recommendations) < Len(Get(result).issues)

SessionNotFound == Err("Session not found")

IsNone(r) == DOMAIN r = {"none"}

Raised(r) == "raised" \in DOMAIN r

(* C7: apply_edit_operation, apply_recommendation, undo_last_edit and       *)
(* redo_last_edit called with a session_id that is not in active_sessions   *)
(* return {"error": "Session not found"}, do not raise, and leave           *)
(* active_sessions, hence every existing session, as it was.                *)
C7_UnknownSessionIsStructuredError ==
  [][(/\ call'.op \in {"apply_edit_operation", "apply_recommendation",
                        "undo_last_edit", "redo_last_edit"}
      /\ ~call'.known)
     => (/\ ret' = SessionNotFound
         /\ ~Raised(ret')
         /\ active_sessions' = active_sessions)]_vars

C7_Witness ==
  /\ call.op = "undo_last_edit"
  /\ ~call.known
  /\ ret = SessionNotFound
  /\ \E k \in DOMAIN active_sessions : active_sessions[k].undo_stack # <<>>

Tracked == active_sessions[trail.session_id]

(* C9: after a successful apply on a session followed by undo and then redo *)
(* on that session, current_code equals the code the apply produced.        *)
C9_ApplyUndoRedoRestores ==
  trail.phase = "redone"
    => (/\ trail.session_id \in DOMAIN active_sessions
        /\ Tracked.current_code = trail.code)

C9_Witness ==
  /\ trail.phase = "redone"
  /\ call.op = "redo_last_edit"
  /\ trail.code # Tracked.code
  /\ Tracked.current_code = trail.code

(* C10: after a successful apply the session's redo stack is empty whatever *)
(* preceded it, and a redo issued on the session right after the apply      *)
(* returns {"error": "Nothing to redo"}.                                    *)
C10_ApplyClearsRedo ==
  /\ trail.phase = "applied"
       => (/\ trail.session_id \in DOMAIN active_sessions
           /\ Tracked.redo_stack = <<>>)
  /\ trail.phase = "redo_after_apply"
       => (call.op = "redo_last_edit" /\ ret = Err("Nothing to redo"))

C10_Witness ==
  /\ trail.phase = "redo_after_apply"
  /\ trail.redo_before
  /\ ret = Err("Nothing to redo")

(* Ids handed out by create_session that are no longer in active_sessions *)
FinalizedIds == (1..sessions_created) \ DOMAIN active_sessions

(* C11: finalize_session on an existing session returns its current_code    *)
(* as of the call and removes exactly that session, the others staying as   *)
(* they were; a removed id never comes back, and apply, undo, redo, diff    *)
(* and finalize with it behave as for an unknown session.                   *)
C11_FinalizeReturnsCodeAndRemoves ==
  [][/\ (call'.op = "finalize_session" /\ call'.known)
          => \E sid \in DOMAIN active_sessions :
               /\ ret' = [value |-> active_sessions[sid].current_code]
               /\ DOMAIN active_sessions' = DOMAIN active_sessions \ {sid}
               /\ \A k \in DOMAIN active_sessions' :
                    active_sessions'[k] = active_sessions[k]
     /\ FinalizedIds \subseteq FinalizedIds'
     /\ \A sid \in FinalizedIds' :
          /\ \A operation \in EditOperations :
               apply_edit_operation(active_sessions', sid, operation)
                 = [sessions |-> active_sessions', ret |-> SessionNotFound]
          /\ \A recommendation \in Recommendations :
               apply_recommendation(active_sessions', sid, recommendation)
                 = [sessions |-> active_sessions', ret |-> SessionNotFound]
          /\ undo_last_edit(active_sessions', sid)
               = [sessions |-> active_sessions', ret |-> SessionNotFound]
          /\ redo_last_edit(active_sessions', sid)
               = [sessions |-> active_sessions', ret |-> SessionNotFound]
          /\ get_session_diff(active_sessions', sid) = Nothing
          /\ finalize_session(active_sessions', sid)
               = [sessions |-> active_sessions', ret |-> Nothing]]_vars

C11_Witness ==
  /\ call.op = "finalize_session"
  /\ call.known
  /\ "value" \in DOMAIN ret
  /\ FinalizedIds # {}
  /\ \E k \in DOMAIN active_sessions : active_sessions[k].undo_stack # <<>>

(* The code a fix call ended with *)
FixResultCode ==
  IF fcall.op = "legacy_apply_fix" THEN fret.code
  ELSE IF IsSome(fret.updated_code) THEN Get(fret.updated_code) ELSE fcall.code

(* C12: whenever the code a fix application ends with equals the code it    *)
(* was given, the application reports success=False; so with a fix whose    *)
(* original and suggested code are identical.                               *)
C12_UnchangedFixReportsFailure ==
  (fcall.op \in {"legacy_apply_fix", "fix_issue"} /\ FixResultCode = fcall.code)
    => ~fret.success

(* The recommendation's original_code does not occur in the code *)
NoOp(recommendation, code) == ~contains(recommendation.original_code, code)

(* C13: applying a recommendation whose original_code does not occur in the *)
(* session's current_code is reported as a failure: apply_recommendation    *)
(* does not return success, apply_recommendations does not count it in      *)
(* applied_count, and current_code stays as it was.                         *)
C13_NoOpRecommendationFails ==
  [][/\ (/\ call'.op = "apply_recommendation"
         /\ call'.known
         /\ NoOp(call'.recommendation,
                 active_sessions[call'.session_id].current_code))
          => (/\ ~Succeeded(ret')
              /\ active_sessions'[call'.session_id].current_code
                   = active_sessions[call'.session_id].current_code)
     /\ (/\ call'.op = "apply_recommendations"
         /\ call'.known
         /\ \A i \in DOMAIN call'.recommendations :
              NoOp(call'.recommendations[i],
                   active_sessions[Get(call'.session_id)].current_code))
          => (/\ ret'.applied_count = 0
              /\ active_sessions'[Get(call'.session_id)].current_code
                   = active_sessions[Get(call'.session_id)].current_code)]_vars


(* ------------------------------------------------------------------------ *)
(* Response parsing                                                          *)
(* ------------------------------------------------------------------------ *)
ParserCalled == fcall.op \in {"get_issues_from_ai", "perform_analysis"}

(* The reply of the call gave the parser nothing to extract: the completion *)
(* call failed, the content is missing, the text decodes as JSON but not to *)
(* an array of issue objects with usable line ranges, or the text does not  *)
(* decode and holds none of the patterns the freeform path of that agent    *)
(* looks for.                                                                *)
TotalParseFailure ==
  \/ fcall.reply.kind = "error"
  \/ ~IsSome(fcall.reply.content)
  \/ LET text == Get(fcall.reply.content)
         decoded == json_loads(text)
     IN IF fcall.op = "perform_analysis"
        THEN \A i \in 1..Len(text) : text[i].t # "ISSUE:"
        ELSE IF IsSome(decoded) THEN ~IsSome(issues_of_data(Get(decoded)))
        ELSE \A i \in 1..Len(text) : text[i].t # "bold"

(* C14: issue extraction never raises to its caller.  Whatever the reply    *)
(* (a JSON array, JSON of another shape, text that is not JSON, an empty    *)
(* or missing content, a failed completion call), both parsers return a     *)
(* list, and the list is empty when nothing could be parsed.                 *)
C14_ParserNeverRaises ==
  ParserCalled =>
    /\ ~fret.raised
    /\ DOMAIN fret.issues = 1..Len(fret.issues)
    /\ TotalParseFailure => fret.issues = <<>>

(* A reply that decodes as JSON and makes the loop over it raise. *)
C14_Witness ==
  /\ fcall.op = "get_issues_from_ai"
  /\ fcall.reply.kind = "content" /\ IsSome(fcall.reply.content)
  /\ IsSome(json_loads(Get(fcall.reply.content)))
  /\ try_get_issues(fcall.reply).exc = "Exception"
  /\ fret = [raised |-> FALSE, issues |-> <<>>]

(* The reply text is a JSON array whose elements are all issue objects that *)
(* carry a title, a severity and a category, and whose line_number_range is *)
(* absent, a line number, or a string "start-end".                           *)
RangeStart(r) ==
  IF r.j = "int" THEN r.n
  ELSE IF r.s = <<"1", "2", "-", "1", "5">> THEN 12 ELSE 0

WellFormedIssueObject(tok) ==
  /\ tok.t = "obj"
  /\ IsSome(tok.o.issue_title) /\ IsSome(tok.o.severity) /\ IsSome(tok.o.category)
  /\ IsSome(tok.o.line_number_range) => RangeStart(Get(tok.o.line_number_range)) >= 1

WellFormedIssueArray(text) ==
  /\ Len(text) >= 2 /\ text[1].t = "[" /\ text[Len(text)].t = "]"
  /\ Len(text) = 2 \/ Len(text) % 2 = 1
  /\ \A p \in 2..(Len(text) - 1) :
       IF p % 2 = 0 THEN WellFormedIssueObject(text[p]) ELSE text[p].t = ","

(* C15: strict parsing of a well-formed JSON array of N issue objects gives *)
(* exactly N issues in array order; the n-th issue has the title, severity  *)
(* and category of the n-th object unchanged, and its line number is the    *)
(* start of the object's line_number_range, be it an integer or a string    *)
(* "start-end" (no line number when the object has no range).                *)
C15_StrictParseRoundTrip ==
  (/\ fcall.op = "get_issues_from_ai"
   /\ fcall.reply.kind = "content" /\ IsSome(fcall.reply.content)
   /\ WellFormedIssueArray(Get(fcall.reply.content)))
  => LET text == Get(fcall.reply.content)
         N == (Len(text) - 1) \div 2
     IN /\ Len(fret.issues) = N
        /\ \A n \in 1..N :
             /\ fret.issues[n].title = Get(text[2 * n].o.issue_title)
             /\ fret.issues[n].severity = Get(text[2 * n].o.severity)
             /\ fret.issues[n].category = Get(text[2 * n].o.category)
             /\ fret.issues[n].line_number =
                  IF IsSome(text[2 * n].o.line_number_range)
                  THEN Some(RangeStart(Get(text[2 * n].o.line_number_range)))
                  ELSE Nothing

(* Two objects, one with the range "12-15" and one with the range 8. *)
C15_Witness ==
  /\ fcall.op = "get_issues_from_ai"
  /\ fcall.reply.kind = "content" /\ IsSome(fcall.reply.content)
  /\ WellFormedIssueArray(Get(fcall.reply.content))
  /\ Len(fret.issues) = 2
  /\ fret.issues[1].line_number = Some(12)
  /\ fret.issues[2].line_number = Some(8)

(* The text does not decode as JSON and holds exactly two "ISSUE:" markers, *)
(* each followed by a block that is not blank.                               *)
TwoIssueBlocks(text) ==
  /\ ~IsSome(json_loads(text))
  /\ Cardinality({i \in 1..Len(text) : text[i].t = "ISSUE:"}) = 2
  /\ Cardinality(issue_blocks(text)) = 2

(* C16: a reply that fails JSON decoding is parsed by the freeform path and *)
(* not discarded: a text that is not valid JSON and holds two blocks        *)
(* delimited by "ISSUE:" gives exactly 2 issues.                             *)
C16_IssueBlocksFallback ==
  (/\ ParserCalled
   /\ fcall.reply.kind = "content" /\ IsSome(fcall.reply.content)
   /\ TwoIssueBlocks(Get(fcall.reply.content)))
  => Len(fret.issues) = 2

(* C18: every issue a parser hands on for an analysis result has a         *)
(* severity of critical, high, medium, low or info and a category of        *)
(* security, performance, quality, maintainability, best_practices, style   *)
(* or bug; a value outside these sets fails validation and gives no issue.  *)
C18_ClosedSeverityAndCategory ==
  ParserCalled =>
    \A n \in 1..Len(fret.issues) :
      /\ fret.issues[n].severity \in SeverityLevel
      /\ fret.issues[n].category \in IssueCategory

(* ------------------------------------------------------------------------ *)
(* Streaming and non-streaming analysis                                      *)
(* ------------------------------------------------------------------------ *)
(* The result the analysis_complete event of the finished run carries *)
CompleteResult == events[Len(events)].result

RECURSIVE IssuesBefore(_)
IssuesBefore(k) ==
  IF k <= 1 THEN 0 ELSE IssuesBefore(k - 1) + Len(responses[k - 1].issues)

RECURSIVE CountSum(_)
CountSum(results) ==
  IF results = <<>> THEN 0 ELSE Head(results).count + CountSum(Tail(results))

CodeValidation(code) == validate_session_code(<<NewSession(code)>>, 1)

LegacyFindings == nl_matches(Get(fcall.reply.content), 1)

BlockFindings == issue_blocks(Get(fcall.reply.content))

(* C21: in freeform parsing no finding is dropped for want of a line        *)
(* number: every finding gives an issue, and a finding whose text names no  *)
(* line is located at line 1.                                                *)
C21_MissingLineDefaultsToOne ==
  (/\ fcall.op \in {"get_issues_from_ai", "perform_analysis"}
   /\ fcall.reply.kind = "content" /\ IsSome(fcall.reply.content)
   /\ ~IsSome(json_loads(Get(fcall.reply.content))))
  => IF fcall.op = "get_issues_from_ai"
     THEN /\ Len(fret.issues) = Len(LegacyFindings)
          /\ \A m \in 1..Len(LegacyFindings) :
               ~IsSome(line_search(LegacyFindings[m].description))
                 => fret.issues[m].line_number = Some(1)
     ELSE /\ Len(fret.issues) = Cardinality(BlockFindings)
          /\ \A n \in 1..Len(fret.issues) :
               LET i == CHOOSE i \in BlockFindings :
                          Cardinality({j \in BlockFindings : j < i}) = n - 1
               IN ~IsSome(block_line_search(block_at(Get(fcall.reply.content), i)))
                    => fret.issues[n].location.line_start = 1

(* ------------------------------------------------------------------------ *)
(* Tagging of the issues an agent returns                                    *)
(* ------------------------------------------------------------------------ *)
(* Name and analysis dimension of the agent a call was made on *)
CalledAgent ==
  CASE fcall.op = "get_issues_from_ai" ->
         [name |-> fcall.name,
          dimension |->
            CASE fcall.name = "Security Analysis Agent" -> "security"
              [] fcall.name = "Performance Optimization Agent" -> "performance"
              [] fcall.name = "Code Quality Agent" -> "quality"
              [] fcall.name = "Best Practices Agent" -> "best_practices"
              [] fcall.name = "Maintainability Agent" -> "maintainability"]
    [] fcall.op = "perform_analysis" ->
         [name |-> agents.performance_agent, dimension |-> "performance"]
    [] fcall.op = "security_perform_analysis" ->
         [name |-> agents.security_agent, dimension |-> "security"]
    [] fcall.op = "code_analyzer_perform_analysis" ->
         [name |-> agents.code_analyzer, dimension |-> "quality"]

AgentCalled ==
  fcall.op \in {"get_issues_from_ai", "perform_analysis",
                "security_perform_analysis", "code_analyzer_perform_analysis"}

(* C22: every issue an agent returns carries the name of that agent in      *)
(* detected_by and the one analysis dimension of that agent in category.    *)
C22_IssuesTaggedWithAgent ==
  AgentCalled =>
    \A n \in 1..Len(fret.issues) :
      /\ "detected_by" \in DOMAIN fret.issues[n]
      /\ fret.issues[n].detected_by = CalledAgent.name
      /\ fret.issues[n].category = CalledAgent.dimension

(* ------------------------------------------------------------------------ *)
(* Content of the summary                                                    *)
(* ------------------------------------------------------------------------ *)
SummaryCategories == {fcall.issues[i].category : i \in 1..Len(fcall.issues)}

MainAreas == {fret.main_areas[k].category : k \in 1..Len(fret.main_areas)}

(* the top-categories part of the summary: min(3, number of categories)     *)
(* distinct categories with their counts, none of them with fewer issues    *)
(* than a category left out                                                  *)
MainAreasAreTopThree ==
  /\ Len(fret.main_areas) = Min(3, Cardinality(SummaryCategories))
  /\ Cardinality(MainAreas) = Len(fret.main_areas)
  /\ \A k \in 1..Len(fret.main_areas) :
       /\ fret.main_areas[k].category \in SummaryCategories
       /\ fret.main_areas[k].count
            = CountWhere(fcall.issues, "category", fret.main_areas[k].category)
       /\ \A c \in SummaryCategories \ MainAreas :
            CountWhere(fcall.issues, "category", c) <= fret.main_areas[k].count

(* C23: for a non-empty issue list the summary gives the total number of    *)
(* issues, the count of every severity that occurs, info included, and the  *)
(* three categories with the most issues (all of them when fewer than three *)
(* occur).                                                                   *)
C23_SummaryStatesCounts ==
  (fcall.op = "generate_summary" /\ fcall.issues # <<>>) =>
    /\ ~fret.no_issues_found
    /\ fret.total = Len(fcall.issues)
    /\ \A sev \in SeverityLevel :
         CountWhere(fcall.issues, "severity", sev) > 0 =>
           \E k \in 1..Len(fret.severity) :
             fret.severity[k] =
               [severity |-> sev,
                count |-> CountWhere(fcall.issues, "severity", sev)]
    /\ MainAreasAreTopThree

(* ------------------------------------------------------------------------ *)
(* Undo as the inverse of apply                                              *)
(* ------------------------------------------------------------------------ *)
(* Every edit applied to the session has been undone again: the undo stack   *)
(* is empty and the redo stack holds one entry per applied edit.             *)
AllUndone(session) ==
  /\ session.applied_edits # <<>>
  /\ session.undo_stack = <<>>
  /\ Len(session.redo_stack) = Len(session.applied_edits)

(* The code the session had before the edit that pushed the top entry of    *)
(* its undo stack (editor_agent.py:112 stores it as new_content).            *)
CodeBeforeLastApply(session) ==
  OrEmpty(session.undo_stack[Len(session.undo_stack)].new_content)

(* C24: an undo issued right after a successful apply sets current_code     *)
(* back to the code the session had before that apply, and a session whose  *)
(* k applies have all been undone by k undos has the code it was created    *)
(* with.                                                                     *)
C24_UndoInvertsApply ==
  [][/\ (trail.phase = "applied" /\ trail'.phase = "undone")
          => active_sessions'[trail.session_id].current_code
               = CodeBeforeLastApply(Tracked)
     /\ \A sid \in DOMAIN active_sessions' :
          AllUndone(active_sessions'[sid])
            => active_sessions'[sid].current_code = active_sessions'[sid].code]_vars

(* ------------------------------------------------------------------------ *)
(* Lines removed by a delete                                                 *)
(* ------------------------------------------------------------------------ *)
(* lines with the 1-based lines first..last taken out *)
RECURSIVE WithoutLines(_, _, _)
WithoutLines(lines, first, last) ==
  IF lines = <<>> THEN <<>>
  ELSE (IF first <= 1 /\ 1 <= last THEN <<>> ELSE <<Head(lines)>>)
       \o WithoutLines(Tail(lines), first - 1, last - 1)

(* C25: a delete with line_start s and line_end e removes exactly the lines *)
(* s..e of the code, and with line_end absent exactly the line s.           *)
C25_DeleteRemovesExactlyTheRange ==
  fcall.op = "apply_delete" =>
    /\ Succeeded(fret.ret)
    /\ fret.ret.new_code =
         join(WithoutLines(split(fcall.code), fcall.operation.line_start,
                           IF IsSome(fcall.operation.line_end)
                           THEN Get(fcall.operation.line_end)
                           ELSE fcall.operation.line_start))

(* ------------------------------------------------------------------------ *)
(* Order of the streaming events                                             *)
(* ------------------------------------------------------------------------ *)
EventsOfType(types) == {k \in 1..Len(events) : events[k].type \in types}

AgentTerminal == {"agent_complete", "agent_error"}

(* The issues of the issue_found events, in the order of the events *)
RECURSIVE FoundIssues(_)
FoundIssues(evs) ==
  IF evs = <<>> THEN <<>>
  ELSE (IF Head(evs).type = "issue_found" THEN <<Head(evs).issue>> ELSE <<>>)
       \o FoundIssues(Tail(evs))

(* agent_start is followed by an issue_found or a terminal event of the     *)
(* same agent, issue_found likewise, and both issue_found and a terminal    *)
(* event follow an agent_start or an issue_found of the same agent: the     *)
(* events of an agent are start, issue_found*, one terminal event.          *)
AgentEventsNested ==
  /\ \A k \in EventsOfType({"agent_start", "issue_found"}) :
       /\ k < Len(events)
       /\ events[k + 1].type \in {"issue_found"} \cup AgentTerminal
       /\ events[k + 1].agent = events[k].agent
  /\ \A k \in EventsOfType({"issue_found"} \cup AgentTerminal) :
       /\ k > 1
       /\ events[k - 1].type \in {"agent_start", "issue_found"}
       /\ events[k - 1].agent = events[k].agent

(* C26: the events of a streaming run are well nested per agent             *)
(* (agent_start, zero or more issue_found, exactly one agent_complete or    *)
(* agent_error), every recommendation_generated comes after the terminal    *)
(* event of the last agent and before analysis_complete, and the            *)
(* issue_found events are, in order, the issues of the final result.        *)
C26_EventsWellNested ==
  orch = "v2" =>
    /\ AgentEventsNested
    /\ \A r \in EventsOfType({"recommendation_generated"}) :
         /\ Cardinality({k \in EventsOfType(AgentTerminal) : k < r})
              = Len(analysis_agents)
         /\ \A k \in EventsOfType({"agent_start", "issue_found"} \cup AgentTerminal) :
              k < r
         /\ \A k \in EventsOfType({"analysis_complete"}) : r < k
    /\ pc = "done" => FoundIssues(events) = Get(result).issues

(* A finished run with an agent that reported an issue, one that reported   *)
(* none, and a recommendation between the agents and the final event.       *)
C26_Witness ==
  /\ orch = "v2" /\ pc = "done"
  /\ EventsOfType({"issue_found"}) # {}
  /\ EventsOfType({"agent_error"}) # {}
  /\ EventsOfType({"agent_complete"}) # {}
  /\ EventsOfType({"recommendation_generated"}) # {}
  /\ FoundIssues(events) = Get(result).issues

(* ------------------------------------------------------------------------ *)
(* Event reported for an agent                                               *)
(* ------------------------------------------------------------------------ *)
(* The terminal events the run has yielded for an agent *)
TerminalEventsOf(agent) ==
  {k \in EventsOfType(AgentTerminal) : events[k].agent = agent}

(* C27: an agent whose analyze call succeeds is reported with               *)
(* agent_complete carrying the number of issues it returned, zero included, *)
(* and never with agent_error; agent_error is reported only for an agent    *)
(* whose call raised or returned a failed response.                          *)
C27_SuccessIsAgentComplete ==
  orch = "v2" =>
    \A i \in 1..Len(responses) :
      \A k \in TerminalEventsOf(responses[i].agent) :
        IF responses[i].kind = "ok"
        THEN /\ events[k].type = "agent_complete"
             /\ events[k].issues_found = Len(responses[i].issues)
        ELSE events[k].type = "agent_error"

(* ------------------------------------------------------------------------ *)
(* Undo and redo with nothing on the stack                                   *)
(* ------------------------------------------------------------------------ *)
(* C28: undo_last_edit on a session whose undo stack is empty returns       *)
(* {"error": "Nothing to undo"}, redo_last_edit on a session whose redo     *)
(* stack is empty returns {"error": "Nothing to redo"}, and neither call    *)
(* changes a field of the session.                                           *)
C28_EmptyStackIsError ==
  [][/\ \A sid \in DOMAIN active_sessions' :
          /\ active_sessions'[sid].undo_stack = <<>>
               => undo_last_edit(active_sessions', sid)
                    = [sessions |-> active_sessions', ret |-> Err("Nothing to undo")]
          /\ active_sessions'[sid].redo_stack = <<>>
               => redo_last_edit(active_sessions', sid)
                    = [sessions |-> active_sessions', ret |-> Err("Nothing to redo")]
     /\ (call'.op = "undo_last_edit" /\ call'.known)
          => \/ ret' = Err("Nothing to undo") /\ active_sessions' = active_sessions
             \/ /\ Succeeded(ret')
                /\ \E sid \in DOMAIN active_sessions :
                     active_sessions[sid].undo_stack # <<>>
     /\ (call'.op = "redo_last_edit" /\ call'.known)
          => \/ ret' = Err("Nothing to redo") /\ active_sessions' = active_sessions
             \/ /\ Succeeded(ret')
                /\ \E sid \in DOMAIN active_sessions :
                     active_sessions[sid].redo_stack # <<>>]_vars

(* An undo that was refused on a session that has an applied edit and a     *)
(* non-empty redo stack, all of which it left alone.                         *)
C28_Witness ==
  /\ call.op = "undo_last_edit" /\ call.known
  /\ ret = Err("Nothing to undo")
  /\ \E sid \in DOMAIN active_sessions :
       /\ active_sessions[sid].undo_stack = <<>>
       /\ active_sessions[sid].redo_stack # <<>>
       /\ active_sessions[sid].applied_edits # <<>>

(* ------------------------------------------------------------------------ *)
(* Independence of the sessions                                              *)
(* ------------------------------------------------------------------------ *)
(* Sessions of the step that are gone or differ after it *)
TouchedSessions ==
  {sid \in DOMAIN active_sessions :
     \/ sid \notin DOMAIN active_sessions'
     \/ active_sessions'[sid] # active_sessions[sid]}

(* The sessions other than sid are in after as they are in before *)
OthersKept(before, after, sid) ==
  \A other \in DOMAIN before \ {sid} :
    other \in DOMAIN after /\ after[other] = before[other]

(* C29: create_session returns an id that was never handed out before and   *)
(* adds exactly one session, whose current_code is the code of the context  *)
(* and whose undo stack, redo stack and applied edits are empty; apply,      *)
(* undo, redo, diff and finalize on one session leave every other session   *)
(* as it was.                                                                *)
C29_SessionsAreIndependent ==
  [][/\ call'.op = "create_session"
          => \E sid \in DOMAIN active_sessions' :
               /\ ret' = [session_id |-> sid]
               /\ sid \notin 1..sessions_created
               /\ DOMAIN active_sessions' = DOMAIN active_sessions \cup {sid}
               /\ TouchedSessions = {}
               /\ active_sessions'[sid].code \in InitialCodes
               /\ active_sessions'[sid].current_code = active_sessions'[sid].code
               /\ active_sessions'[sid].undo_stack = <<>>
               /\ active_sessions'[sid].redo_stack = <<>>
               /\ active_sessions'[sid].applied_edits = <<>>
     /\ call'.op \in {"apply_edit_operation", "apply_recommendation", "undo_last_edit",
                      "redo_last_edit", "get_session_diff", "finalize_session"}
          => /\ Cardinality(TouchedSessions) <= 1
             /\ DOMAIN active_sessions' \subseteq DOMAIN active_sessions
     /\ \A sid \in DOMAIN active_sessions' :
          /\ \A operation \in EditOperations :
               OthersKept(active_sessions',
                          apply_edit_operation(active_sessions', sid, operation).sessions,
                          sid)
          /\ OthersKept(active_sessions',
                        undo_last_edit(active_sessions', sid).sessions, sid)
          /\ OthersKept(active_sessions',
                        redo_last_edit(active_sessions', sid).sessions, sid)
          /\ OthersKept(active_sessions',
                        finalize_session(active_sessions', sid).sessions, sid)]_vars

(* An edit has just been applied to one of two sessions: that session has   *)
(* the new code and an undo entry, the other still has the code it was      *)
(* created with and nothing on its stacks.                                   *)
C29_Witness ==
  /\ call.op = "apply_edit_operation" /\ Succeeded(ret)
  /\ \E sid, other \in DOMAIN active_sessions :
       /\ sid # other
       /\ active_sessions[sid].current_code = ret.new_code
       /\ active_sessions[sid].current_code # active_sessions[sid].code
       /\ active_sessions[sid].undo_stack # <<>>
       /\ active_sessions[other].current_code = active_sessions[other].code
       /\ active_sessions[other].undo_stack = <<>>
       /\ active_sessions[other].applied_edits = <<>>

(* ------------------------------------------------------------------------ *)
(* Number of agents announced                                                *)
(* ------------------------------------------------------------------------ *)
(* C30: the total_agents of the initial status event equals the number of   *)
(* agent_start events of the run and the agent_count of the result's        *)
(* metadata.                                                                 *)
C30_TotalAgentsMatchesRun ==
  (orch = "v2" /\ pc = "done") =>
    /\ events[1].type = "status"
    /\ events[1].total_agents = Cardinality(EventsOfType({"agent_start"}))
    /\ events[1].total_agents = Get(result).metadata.agent_count

====
